---- MODULE Spec2Model ----
(***************************************************************************)
(* Todo-tree persistence engine of the sticky-note widget: the todos table *)
(* of src-tauri/src/db.rs, the command layer of src-tauri/src/lib.rs and   *)
(* the handlers of src/app.rs that issue the commands.                     *)
(*                                                                         *)
(* Option<T> values are sequences: None is << >> and Some(v) is << v >>.   *)
(* The declared foreign key of todos.parent_id (ON DELETE CASCADE) is      *)
(* modelled as enforced by the storage engine.                             *)
(***************************************************************************)
EXTENDS Integers, Sequences, FiniteSets, TLC

\* ------------------------------------------------------------------ bounds
\* Largest id AUTOINCREMENT hands out in Spec.
MaxId == 2
\* Largest target_position a move command is issued with.
MaxPos == 1
\* Largest table SpecCascade starts from.
MaxNodes == 3
\* Largest id AUTOINCREMENT hands out in SpecAll.
MaxAllId == 1
\* Largest countdown set_todo_count is issued with.
MaxCount == 1

VARIABLES
    todos,   \* the todos table: id -> row
    seq,     \* sqlite_sequence of todos: the largest id ever assigned
    hung,    \* a command entered a walk that never ends and holds the backend
    last,    \* the last command executed, its arguments and its outcome
    notes,   \* the notes table: id -> content
    ui_todos,        \* the todos signal: the snapshot the UI holds
    dragging_id,     \* the dragging_id signal
    drop_target_id,  \* the drop_target_id signal
    drop_position,   \* the drop_position signal, in hundredths
    ui_hung,         \* a handler entered a walk that never ends
    requests,        \* invoke calls on their way to the backend, oldest first
    replies          \* replies on their way to the tasks awaiting them

storeVars == <<todos, seq, hung, last, notes>>
uiVars == <<ui_todos, dragging_id, drop_target_id, drop_position, ui_hung,
            requests, replies>>
vars == <<todos, seq, hung, last, notes, ui_todos, dragging_id, drop_target_id,
          drop_position, ui_hung, requests, replies>>

None == << >>
Some(v) == << v >>

Ids == 1..MaxId
Parents == {None} \cup {Some(i) : i \in Ids}
Positions == 0..MaxPos
DefaultText == "todo"

\* ------------------------------------------------------------ the table
TodoItem(text, completed, parent_id, position, target_count, current_count) ==
    [text |-> text, completed |-> completed, parent_id |-> parent_id,
     position |-> position, target_count |-> target_count,
     current_count |-> current_count]

\* Rows of T whose parent_id is p (p = None: the root group).
Siblings(T, p) == {n \in DOMAIN T : T[n].parent_id = p}

\* T with the rows of S rewritten by f and every other row kept.
UpdateWhere(T, S, f(_)) == [n \in DOMAIN T |-> IF n \in S THEN f(T[n]) ELSE T[n]]

MaxOf(S) == CHOOSE m \in S : \A x \in S : x <= m

\* The result of a transaction: the statements' effect when it commits, the
\* state it started from when a statement failed and the transaction was dropped.
Transaction(pre, post, failed) == IF failed THEN pre ELSE post

\* --------------------------------------------------------------- integers
\* SQLite keeps an INTEGER column in 64 bits (unbounded here); the Rust side
\* reads position into an i32, which the model gives IntBits bits.
IntBits == 4
I32Min == -(2 ^ (IntBits - 1))
I32Max == 2 ^ (IntBits - 1) - 1

\* row.get::<_, i32>(..) returns Err for a value outside the i32 range
InI32(v) == I32Min <= v /\ v <= I32Max

\* i32 addition without overflow checks (a release build): modulo 2^IntBits
WrapI32(v) == ((v - I32Min) % (2 ^ IntBits)) + I32Min

\* ----------------------------------------------------------------- notes
\* init_db writing the default note whether or not the table holds one.
InitNotesResetting(N) == [id \in {1} |-> ""]

\* init_db: SELECT count(*) FROM notes; if count == 0 { INSERT INTO notes
\* (id, content) VALUES (1, '') }
db_init_notes(N) == IF Cardinality(DOMAIN N) = 0 THEN [id \in {1} |-> ""] ELSE N

\* get_note: SELECT content FROM notes WHERE id = 1 (query_row fails when
\* there is no such row)
db_get_note(N) ==
    IF 1 \in DOMAIN N THEN [res |-> "ok", content |-> N[1]]
    ELSE [res |-> "err", content |-> ""]

\* save_note: UPDATE notes SET content = ?1 WHERE id = 1
db_save_note(N, content) == [id \in DOMAIN N |-> IF id = 1 THEN content ELSE N[id]]

\* ------------------------------------------------------------- save_todo
\* The number of root rows, less one, in place of the largest position.
RootCountLessOne(T) == Cardinality(Siblings(T, None)) - 1

\* COALESCE(MAX(position), -1) over the root group.
MaxRootPosition(T) ==
    IF Siblings(T, None) = {} THEN -1
    ELSE MaxOf({T[n].position : n \in Siblings(T, None)})

\* save_todo with the position the UI gives a row it pushes: always 0.
NewRootItemAtZero(T, text) == TodoItem(text, FALSE, None, 0, None, 0)

\* let position = max_pos.unwrap_or(-1) + 1: max_pos is Err, and -1 is taken,
\* when the largest position does not fit an i32.
NextPosition(T) ==
    LET max_pos == IF InI32(MaxRootPosition(T)) THEN Some(MaxRootPosition(T)) ELSE None
    IN  WrapI32((IF max_pos = None THEN -1 ELSE max_pos[1]) + 1)

\* max_pos + 1 overflows: a build with overflow checks panics there.
AddOverflows(T) == MaxRootPosition(T) = I32Max

\* The row save_todo inserts.
NewRootItem(T, text) == TodoItem(text, FALSE, None, NextPosition(T), None, 0)

\* save_todo leaving one position free before the new row.
SaveTodoSkipping(T, id, text) ==
    [n \in DOMAIN T \cup {id} |->
        IF n = id THEN TodoItem(text, FALSE, None, MaxRootPosition(T) + 2, None, 0)
        ELSE T[n]]

\* save_todo: the table with the new row, id the rowid AUTOINCREMENT assigns
db_save_todo(T, id, text) ==
    [n \in DOMAIN T \cup {id} |-> IF n = id THEN NewRootItem(T, text) ELSE T[n]]

\* ----------------------------------------------------------- update_todo
\* The recursive CTE: every row reachable from id through parent_id.
RECURSIVE DescClosure(_, _)
DescClosure(T, S) ==
    LET nxt == S \cup {n \in DOMAIN T :
                          T[n].parent_id # None /\ T[n].parent_id[1] \in S}
    IN  IF nxt = S THEN S ELSE DescClosure(T, nxt)

Descendants(T, id) == DescClosure(T, Siblings(T, Some(id)))

\* The update of the row clearing its counter together with completed.
SetSelfClearingCount(T, id, completed) ==
    UpdateWhere(T, {id} \cap DOMAIN T,
                LAMBDA r : [r EXCEPT !.completed = completed, !.current_count = 0])

\* 1. UPDATE todos SET completed = ?1 WHERE id = ?2
SetSelf(T, id, completed) ==
    UpdateWhere(T, {id} \cap DOMAIN T, LAMBDA r : [r EXCEPT !.completed = completed])

\* The down cascade without the recursion: the direct children only.
CascadeDownChildren(T, id, completed) ==
    UpdateWhere(T, Siblings(T, Some(id)), LAMBDA r : [r EXCEPT !.completed = completed])

\* 2. UPDATE todos SET completed = ?2 WHERE id IN descendants
CascadeDown(T, id, completed) ==
    UpdateWhere(T, Descendants(T, id), LAMBDA r : [r EXCEPT !.completed = completed])

\* The parent's status with one completed child taken for all of them.
ParentStatusAny(T, pid) ==
    Cardinality({n \in Siblings(T, Some(pid)) : T[n].completed}) > 0

\* total > 0 && total == completed_count, over the rows with parent_id = pid
ParentStatus(T, pid) ==
    LET total == Cardinality(Siblings(T, Some(pid)))
        completed_count == Cardinality({n \in Siblings(T, Some(pid)) : T[n].completed})
    IN  total > 0 /\ total = completed_count

\* update_todo without the loop over the ancestors.
CascadeUpNone(T, current_id, fuel) ==
    [T |-> T, res |-> IF current_id \in DOMAIN T THEN "ok" ELSE "err"]

\* 3. The loop over the ancestors. res is "ok" when the walk reached a row
\* without parent, "err" when the row of current_id is missing (query_row
\* returns no row) and "loop" when the walk never ends (fuel counts the rows
\* not yet visited: a walk longer than the table is on a cycle).
RECURSIVE CascadeUp(_, _, _)
CascadeUp(T, current_id, fuel) ==
    IF current_id \notin DOMAIN T THEN [T |-> T, res |-> "err"]
    ELSE IF T[current_id].parent_id = None THEN [T |-> T, res |-> "ok"]
    ELSE IF fuel = 0 THEN [T |-> T, res |-> "loop"]
    ELSE LET parent_id == T[current_id].parent_id[1]
             new_parent_status == ParentStatus(T, parent_id)
             T1 == UpdateWhere(T, {parent_id} \cap DOMAIN T,
                               LAMBDA r : [r EXCEPT !.completed = new_parent_status])
         IN  CascadeUp(T1, parent_id, fuel - 1)

\* update_todo with the loop over the ancestors before the two updates.
UpdateTodoBodyUpFirst(T, id, completed) ==
    IF id \in Descendants(T, id) THEN [T |-> T, res |-> "loop"]
    ELSE LET up == CascadeUp(T, id, Cardinality(DOMAIN T))
         IN  [T |-> CascadeDown(SetSelf(up.T, id, completed), id, completed),
              res |-> up.res]

\* The statements of update_todo, in order. The CTE uses UNION ALL, so it
\* never ends when id lies on a cycle of parent_id.
UpdateTodoBody(T, id, completed) ==
    IF id \in Descendants(T, id) THEN [T |-> T, res |-> "loop"]
    ELSE CascadeUp(CascadeDown(SetSelf(T, id, completed), id, completed),
                   id, Cardinality(DOMAIN T))

\* update_todo: [T, res]; the table changes only when the transaction commits.
db_update_todo(T, id, completed, fault) ==
    LET body == UpdateTodoBody(T, id, completed)
        res  == IF fault THEN "err" ELSE body.res
    IN  [T |-> Transaction(T, body.T, res # "ok"), res |-> res]

\* ------------------------------------------------------ update_todo_text
\* update_todo_text followed by the loop of update_todo over the ancestors.
UpdateTodoTextCascading(T, id, text) ==
    CascadeUp(UpdateWhere(T, {id} \cap DOMAIN T, LAMBDA r : [r EXCEPT !.text = text]),
              id, Cardinality(DOMAIN T)).T

\* UPDATE todos SET text = ?1 WHERE id = ?2
db_update_todo_text(T, id, text) ==
    UpdateWhere(T, {id} \cap DOMAIN T, LAMBDA r : [r EXCEPT !.text = text])

\* ----------------------------------------------------------- delete_todo
\* The delete without the cascade of the foreign key.
DeleteRowOnly(T, id) == [n \in DOMAIN T \ {id} |-> T[n]]

\* delete_todo followed by the shift move_todo applies to the list a row leaves.
DeleteCompacting(T, id) ==
    LET gone == IF id \in DOMAIN T THEN {id} \cup Descendants(T, id) ELSE {}
        rest == [n \in DOMAIN T \ gone |-> T[n]]
    IN  IF id \in DOMAIN T
        THEN UpdateWhere(rest, {n \in Siblings(rest, T[id].parent_id) :
                                   rest[n].position > T[id].position},
                         LAMBDA r : [r EXCEPT !.position = r.position - 1])
        ELSE rest

\* DELETE FROM todos WHERE id = ?1, with the rows ON DELETE CASCADE removes.
db_delete_todo(T, id) ==
    LET gone == IF id \in DOMAIN T THEN {id} \cup Descendants(T, id) ELSE {}
    IN  [n \in DOMAIN T \ gone |-> T[n]]

\* ------------------------------------------------------------- move_todo
\* move_todo without the shift in the old list.
CloseGapNone(T, current_parent_id, current_position) == T

\* 2. Remove from old list (shift items up)
CloseGap(T, current_parent_id, current_position) ==
    UpdateWhere(T, {n \in Siblings(T, current_parent_id) :
                       T[n].position > current_position},
                LAMBDA r : [r EXCEPT !.position = r.position - 1])

\* The shift with position > ? in place of position >= ?.
OpenGapStrict(T, target_parent_id, target_position) ==
    UpdateWhere(T, {n \in Siblings(T, target_parent_id) :
                       T[n].position > target_position},
                LAMBDA r : [r EXCEPT !.position = r.position + 1])

\* 3. Make space in new list (shift items down)
OpenGap(T, target_parent_id, target_position) ==
    UpdateWhere(T, {n \in Siblings(T, target_parent_id) :
                       T[n].position >= target_position},
                LAMBDA r : [r EXCEPT !.position = r.position + 1])

\* 4. Update the item itself
SetItem(T, id, target_parent_id, target_position) ==
    UpdateWhere(T, {id}, LAMBDA r : [r EXCEPT !.parent_id = target_parent_id,
                                              !.position = target_position])

\* The foreign key of parent_id: the new parent must be a row of the table.
ForeignKeyOk(T, parent_id) == parent_id = None \/ parent_id[1] \in DOMAIN T

\* The statements of move_todo with the two shifts in the other order.
MoveTodoBodyOpenFirst(T, id, target_parent_id, target_position) ==
    SetItem(CloseGap(OpenGap(T, target_parent_id, target_position),
                     T[id].parent_id, T[id].position),
            id, target_parent_id, target_position)

\* move_todo followed by the loop of update_todo over the new ancestors.
MoveTodoBodyRecomputing(T, id, target_parent_id, target_position) ==
    CascadeUp(SetItem(OpenGap(CloseGap(T, T[id].parent_id, T[id].position),
                              target_parent_id, target_position),
                      id, target_parent_id, target_position),
              id, Cardinality(DOMAIN T)).T

\* The statements of move_todo, in order.
MoveTodoBody(T, id, target_parent_id, target_position) ==
    SetItem(OpenGap(CloseGap(T, T[id].parent_id, T[id].position),
                    target_parent_id, target_position),
            id, target_parent_id, target_position)

\* The transaction fails when the row is missing, when its position does
\* not fit the i32 it is read into, or when the foreign key rejects the parent.
db_move_todo(T, id, target_parent_id, target_position, fault) ==
    LET failed == \/ fault
                  \/ id \notin DOMAIN T
                  \/ id \in DOMAIN T /\ ~InI32(T[id].position)
                  \/ ~ForeignKeyOk(T, target_parent_id)
        post   == IF failed THEN T
                  ELSE MoveTodoBody(T, id, target_parent_id, target_position)
    IN  [T |-> Transaction(T, post, failed), res |-> IF failed THEN "err" ELSE "ok"]

\* -------------------------------------------------------- set_todo_count
\* set_todo_count clearing completed together with the count.
SetTodoCountUncompleting(T, id, count) ==
    LET current_count == IF count = None THEN 0 ELSE count[1]
    IN  UpdateWhere(T, {id} \cap DOMAIN T,
                    LAMBDA r : [r EXCEPT !.target_count = count,
                                         !.current_count = current_count,
                                         !.completed = FALSE])

\* UPDATE todos SET target_count = ?1, current_count = ?2 WHERE id = ?3
db_set_todo_count(T, id, count) ==
    LET current_count == IF count = None THEN 0 ELSE count[1]
    IN  UpdateWhere(T, {id} \cap DOMAIN T,
                    LAMBDA r : [r EXCEPT !.target_count = count,
                                         !.current_count = current_count])

\* -------------------------------------------------------- decrement_todo
\* The UPDATE without AND current_count > 0.
DecrementUnfloored(T, id) ==
    UpdateWhere(T, {id} \cap DOMAIN T,
                LAMBDA r : [r EXCEPT !.current_count = r.current_count - 1])

\* UPDATE todos SET current_count = current_count - 1 WHERE id = ? AND current_count > 0
Decrement(T, id) ==
    UpdateWhere(T, {n \in {id} \cap DOMAIN T : T[n].current_count > 0},
                LAMBDA r : [r EXCEPT !.current_count = r.current_count - 1])

\* decrement_todo without the call of update_todo.
DecrementWithoutCascade(T, id, fault) ==
    IF fault = 1 THEN [T |-> T, res |-> "err"]
    ELSE IF id \notin DOMAIN T THEN [T |-> T, res |-> "err"]
    ELSE [T |-> Decrement(T, id), res |-> IF fault = 2 THEN "err" ELSE "ok"]

\* decrement_todo calling update_todo only when the UPDATE lowered the count
\* to 0, and not when the count was 0 already.
DecrementOnlyOnReach(T, id, fault) ==
    LET T1 == Decrement(T, id)
    IN  IF fault = 1 THEN [T |-> T, res |-> "err"]
        ELSE IF id \notin DOMAIN T1 THEN [T |-> T1, res |-> "err"]
        ELSE IF T1[id].current_count <= 0 /\ T[id].current_count > 0
             THEN db_update_todo(T1, id, TRUE, fault = 2)
             ELSE [T |-> T1, res |-> IF fault = 2 THEN "err" ELSE "ok"]

\* decrement_todo runs on its own connection without a transaction: the
\* decrement is committed by itself, and update_todo then opens its own
\* connection. fault is 0 (no failure), 1 (the storage fails before the
\* decrement), 2 (it fails after the decrement: the SELECT or update_todo fails).
db_decrement_todo(T, id, fault) ==
    LET T1 == Decrement(T, id)
    IN  IF fault = 1 THEN [T |-> T, res |-> "err"]
        ELSE IF id \notin DOMAIN T1 THEN [T |-> T1, res |-> "err"]
        ELSE IF T1[id].current_count <= 0
             THEN db_update_todo(T1, id, TRUE, fault = 2)
             ELSE [T |-> T1, res |-> IF fault = 2 THEN "err" ELSE "ok"]

\* ------------------------------------------------------- reset_all_todos
\* reset_all_todos with current_count = 0 in place of COALESCE(target_count, 0).
ResetAllClearingCounts(T) ==
    UpdateWhere(T, DOMAIN T,
                LAMBDA r : [r EXCEPT !.completed = FALSE, !.current_count = 0])

\* UPDATE todos SET completed = 0, current_count = COALESCE(target_count, 0)
db_reset_all_todos(T) ==
    UpdateWhere(T, DOMAIN T,
                LAMBDA r : [r EXCEPT !.completed = FALSE,
                                     !.current_count = IF r.target_count = None THEN 0
                                                       ELSE r.target_count[1]])

\* ------------------------------------------------------------- commands
\* What the record of the last command holds: the command, its arguments,
\* whether the db function returned Ok, and the reply the UI receives.
Executed(cmd, id, completed, ok, reply) ==
    [cmd |-> cmd, id |-> id, completed |-> completed, ok |-> ok, reply |-> reply]

\* The commands with the error of the db function sent to the UI.
OutcomeSurfacing(cmd, id, completed, r) ==
    /\ todos' = r.T
    /\ hung' = (r.res = "loop")
    /\ notes' = notes
    /\ last' = Executed(cmd, id, completed, r.res = "ok",
                        IF r.res = "loop" THEN "pending"
                        ELSE IF r.res = "err" THEN "error" ELSE "unit")

\* The commands drop the Result of the db function (let _ = ...) and reply
\* with the unit value. A command whose storage work never ends sends no
\* reply and keeps the backend.
Outcome(cmd, id, completed, r) ==
    /\ todos' = r.T
    /\ hung' = (r.res = "loop")
    /\ notes' = notes
    /\ last' = Executed(cmd, id, completed, r.res = "ok",
                        IF r.res = "loop" THEN "pending" ELSE "unit")

\* A single statement on its own connection: it is applied unless the
\* storage is unavailable.
Auto(T, post, fault) == [T |-> IF fault THEN T ELSE post,
                         res |-> IF fault THEN "err" ELSE "ok"]

\* The rowid taken from the largest rowid of the table, as for a key
\* without AUTOINCREMENT.
NextRowIdOfTable(T, s) == IF DOMAIN T = {} THEN 1 ELSE MaxOf(DOMAIN T) + 1

\* id INTEGER PRIMARY KEY AUTOINCREMENT: the rowid of a new row is one more
\* than the largest rowid the table ever held (s, kept in sqlite_sequence).
NextRowId(T, s) == s + 1

\* add_todo_item: db::save_todo(..).unwrap_or(0)
\* When max_pos + 1 overflows the command panics (overflow checks on) or
\* inserts at the wrapped position (overflow checks off).
add_todo_item(text, fault, bound) ==
    /\ ~hung
    /\ seq < bound
    /\ \E panics \in {FALSE} \cup {AddOverflows(todos)} :
          LET failed == fault \/ panics
          IN  /\ todos' = IF failed THEN todos
                          ELSE db_save_todo(todos, NextRowId(todos, seq), text)
              /\ seq' = IF failed THEN seq ELSE NextRowId(todos, seq)
              /\ last' = Executed("add_todo_item",
                                  IF failed THEN 0 ELSE NextRowId(todos, seq),
                                  FALSE, ~failed, "id")
    /\ hung' = hung
    /\ notes' = notes

\* update_todo_status: let _ = db::update_todo(..)
update_todo_status(id, completed, fault) ==
    /\ ~hung
    /\ Outcome("update_todo_status", id, completed,
               db_update_todo(todos, id, completed, fault))
    /\ UNCHANGED seq

\* remove_todo_item: let _ = db::delete_todo(..)
remove_todo_item(id, fault) ==
    /\ ~hung
    /\ Outcome("remove_todo_item", id, FALSE,
               Auto(todos, db_delete_todo(todos, id), fault))
    /\ UNCHANGED seq

\* move_todo_item: the result of db::move_todo is printed and dropped
move_todo_item(id, target_parent_id, target_position, fault) ==
    /\ ~hung
    /\ Outcome("move_todo_item", id, FALSE,
               db_move_todo(todos, id, target_parent_id, target_position, fault))
    /\ UNCHANGED seq

\* reset_all_todos: let _ = db::reset_all_todos(..)
reset_all_todos(fault) ==
    /\ ~hung
    /\ Outcome("reset_all_todos", 0, FALSE,
               Auto(todos, db_reset_all_todos(todos), fault))
    /\ UNCHANGED seq

\* set_todo_count: let _ = db::set_todo_count(..)
set_todo_count(id, count, fault) ==
    /\ ~hung
    /\ Outcome("set_todo_count", id, FALSE,
               Auto(todos, db_set_todo_count(todos, id, count), fault))
    /\ UNCHANGED seq

\* decrement_todo: let _ = db::decrement_todo(..)
decrement_todo(id, fault) ==
    /\ ~hung
    /\ Outcome("decrement_todo", id, FALSE, db_decrement_todo(todos, id, fault))
    /\ UNCHANGED seq

\* load_note: db::get_note(..).unwrap_or_default()
load_note(fault) ==
    /\ ~hung
    /\ last' = Executed("load_note", 0, FALSE,
                        ~fault /\ db_get_note(notes).res = "ok", "content")
    /\ UNCHANGED <<todos, seq, hung, notes>>

\* save_note_content: let _ = db::save_note(..)
save_note_content(content, fault) ==
    /\ ~hung
    /\ notes' = IF fault THEN notes ELSE db_save_note(notes, content)
    /\ last' = Executed("save_note_content", 0, FALSE, ~fault, "unit")
    /\ UNCHANGED <<todos, seq, hung>>

\* db::update_todo_text, which no command of lib.rs exposes
update_todo_text(id, text, fault) ==
    /\ ~hung
    /\ Outcome("update_todo_text", id, FALSE,
               Auto(todos, db_update_todo_text(todos, id, text), fault))
    /\ UNCHANGED seq

\* --------------------------------------------------------- Spec
\* The commands issued one at a time, each awaited, with any arguments,
\* starting from the empty table init_db creates.
\* The UI before any event: empty signals, nothing in flight.
InitUi ==
    /\ ui_todos = << >>
    /\ dragging_id = None
    /\ drop_target_id = None
    /\ drop_position = 50
    /\ ui_hung = FALSE
    /\ requests = << >>
    /\ replies = << >>

UiIdle == UNCHANGED uiVars

Init ==
    /\ todos = << >>
    /\ seq = 0
    /\ hung = FALSE
    /\ last = Executed("init_db", 0, FALSE, TRUE, "unit")
    /\ notes = db_init_notes(<< >>)
    /\ InitUi

Next ==
    \/ add_todo_item(DefaultText, FALSE, MaxId) /\ UiIdle
    \/ \E id \in Ids, completed \in BOOLEAN :
          update_todo_status(id, completed, FALSE) /\ UiIdle
    \/ \E id \in Ids : remove_todo_item(id, FALSE) /\ UiIdle
    \/ \E id \in Ids, p \in Parents, pos \in Positions :
          move_todo_item(id, p, pos, FALSE) /\ UiIdle
    \/ reset_all_todos(FALSE) /\ UiIdle

Spec == Init /\ [][Next]_vars

\* ------------------------------------------------------- SpecCascade
\* The completion cascade on every forest of up to MaxNodes rows. Each
\* initial table is one the commands reach from the empty table: the rows
\* are added as roots, update_todo_status sets the flag of each root and
\* set_todo_count arms its countdown, and move_todo_item then appends the
\* rows, in id order, to their parents.
NodeIds(n) == 1..n

\* no row is its own ancestor
RECURSIVE ReachesRoot(_, _, _)
ReachesRoot(par, i, fuel) ==
    \/ par[i] = None
    \/ fuel > 0 /\ ReachesRoot(par, par[i][1], fuel - 1)

Forests(n) ==
    {par \in [NodeIds(n) -> {None} \cup {Some(i) : i \in NodeIds(n)}] :
        \A i \in NodeIds(n) : ReachesRoot(par, i, n)}

Rank(par, i) == Cardinality({j \in DOMAIN par : par[j] = par[i] /\ j < i})

ForestTable(par, done, armed) ==
    [i \in DOMAIN par |->
        TodoItem(DefaultText, done[i], par[i], Rank(par, i),
                 IF armed[i] THEN Some(1) ELSE None, IF armed[i] THEN 1 ELSE 0)]

InitCascade ==
    /\ \E n \in 0..MaxNodes :
         /\ seq = n
         /\ \E par \in Forests(n), done \in [NodeIds(n) -> BOOLEAN],
               armed \in [NodeIds(n) -> BOOLEAN] :
               todos = ForestTable(par, done, armed)
    /\ hung = FALSE
    /\ last = Executed("init_db", 0, FALSE, TRUE, "unit")
    /\ notes = db_init_notes(<< >>)
    /\ InitUi

NextCascade ==
    \/ add_todo_item(DefaultText, FALSE, MaxNodes) /\ UiIdle
    \/ \E id \in NodeIds(MaxNodes), completed \in BOOLEAN :
          update_todo_status(id, completed, FALSE) /\ UiIdle
    \/ \E id \in NodeIds(MaxNodes) : remove_todo_item(id, FALSE) /\ UiIdle
    \/ reset_all_todos(FALSE) /\ UiIdle

SpecCascade == InitCascade /\ [][NextCascade]_vars

\* ------------------------------------------------------ sibling order
Groups(T) == {T[n].parent_id : n \in DOMAIN T}
GroupPositions(T, p) == {T[n].position : n \in Siblings(T, p)}

\* every group's positions are exactly 0 .. k-1, k the size of the group
Contiguous(T) ==
    \A p \in Groups(T) : GroupPositions(T, p) = 0..(Cardinality(Siblings(T, p)) - 1)

\* the move that took row id from T to T2 asked for a position between 0 and
\* the number of the other rows of the target group
InRangeMove(T, T2, id) ==
    /\ T2[id].position >= 0
    /\ T2[id].position <= Cardinality(Siblings(T, T2[id].parent_id) \ {id})

\* the row the delete removes from T has no sibling after it
LastOfGroup(T, id) ==
    \A s \in Siblings(T, T[id].parent_id) : T[s].position <= T[id].position

Children(T, n) == {c \in DOMAIN T : T[c].parent_id = Some(n)}

\* the rows on the parent_id chain above n
RECURSIVE AncestorsOf(_, _, _)
AncestorsOf(T, n, fuel) ==
    IF n \notin DOMAIN T \/ fuel = 0 THEN {}
    ELSE IF T[n].parent_id = None THEN {}
    ELSE {T[n].parent_id[1]} \cup AncestorsOf(T, T[n].parent_id[1], fuel - 1)

ProperAncestors(T, n) == AncestorsOf(T, n, Cardinality(DOMAIN T))

\* the rows that have n on the chain above them
Below(T, n) == {d \in DOMAIN T : n \in ProperAncestors(T, d)}

ChildrenRule(T, n) == Children(T, n) # {} /\ \A c \in Children(T, n) : T[c].completed

\* C4: in every reachable state a row with at least one child is completed
\* if and only if all its children are completed.
C4_ParentIffChildren ==
    \A n \in DOMAIN todos :
        Children(todos, n) # {} => (todos[n].completed <=> ChildrenRule(todos, n))

\* C5: after set_completed(id, v) on an existing row, the row and every
\* transitive descendant have completed = v, whatever countdown they carry.
C5_DownCascade ==
    (last.cmd = "update_todo_status" /\ last.ok) =>
        \A n \in {last.id} \cup Below(todos, last.id) :
            todos[n].completed = last.completed

\* a row with a grandchild and an armed countdown below it was set
C5_Witness ==
    /\ last.cmd = "update_todo_status" /\ last.ok
    /\ \E c \in Children(todos, last.id) : Children(todos, c) # {}
    /\ \E d \in Below(todos, last.id) :
          todos[d].target_count # None /\ todos[d].current_count > 0

\* C6: after set_completed(id, v) every proper ancestor of id, up to the
\* root, is completed exactly when it has a child and all its children are
\* completed in the resulting state.
C6_UpCascade ==
    (last.cmd = "update_todo_status" /\ last.ok) =>
        \A a \in ProperAncestors(todos, last.id) :
            todos[a].completed = ChildrenRule(todos, a)

\* a row with a grandparent was completed and both ancestors became complete
C6_Witness ==
    /\ last.cmd = "update_todo_status" /\ last.ok /\ last.completed
    /\ Cardinality(ProperAncestors(todos, last.id)) >= 2
    /\ \A a \in ProperAncestors(todos, last.id) : todos[a].completed

\* C7: marking a child complete makes its parent complete exactly when all
\* the other children were complete already (so at the last of them and not
\* before); unmarking a child makes the parent incomplete in the same step.
C7_LastChildCompletes ==
    [][(/\ last'.cmd = "update_todo_status" /\ last'.ok
        /\ todos[last'.id].parent_id # None)
       => LET p == todos[last'.id].parent_id[1]
              others == Children(todos, p) \ {last'.id}
          IN  todos'[p].completed =
                 (last'.completed /\ \A s \in others : todos[s].completed)]_vars

\* the last of several children was marked and the parent is complete
C7_Witness ==
    /\ last.cmd = "update_todo_status" /\ last.ok /\ last.completed
    /\ todos[last.id].parent_id # None
    /\ Cardinality(Children(todos, todos[last.id].parent_id[1])) >= 2
    /\ todos[todos[last.id].parent_id[1]].completed

\* ---------------------------------------------------------------- delete
NoDangling(T) ==
    \A n \in DOMAIN T : T[n].parent_id = None \/ T[n].parent_id[1] \in DOMAIN T

AllIds == 1..MaxAllId
AllParents == {None} \cup {Some(i) : i \in AllIds}
Counts == {None, Some(MaxCount)}
Texts == {DefaultText, "edited"}
\* where decrement_todo meets the failure: nowhere, before its UPDATE, after it
DecrementFaults == 0..2

NextAll ==
    \/ \E text \in Texts, fault \in BOOLEAN :
          add_todo_item(text, fault, MaxAllId) /\ UiIdle
    \/ \E id \in AllIds, completed \in BOOLEAN, fault \in BOOLEAN :
          update_todo_status(id, completed, fault) /\ UiIdle
    \/ \E id \in AllIds, fault \in BOOLEAN : remove_todo_item(id, fault) /\ UiIdle
    \/ \E id \in AllIds, p \in AllParents, fault \in BOOLEAN :
          move_todo_item(id, p, 0, fault) /\ UiIdle
    \/ \E id \in AllIds, count \in Counts, fault \in BOOLEAN :
          set_todo_count(id, count, fault) /\ UiIdle
    \/ \E id \in AllIds, fault \in DecrementFaults :
          decrement_todo(id, fault) /\ UiIdle
    \/ \E id \in AllIds, text \in Texts, fault \in BOOLEAN :
          update_todo_text(id, text, fault) /\ UiIdle
    \/ \E fault \in BOOLEAN : reset_all_todos(fault) /\ UiIdle

SpecAll == Init /\ [][NextAll]_vars

\* C9: every multi-step mutation (move, set_completed, decrement) is all or
\* nothing: when a step of it fails the table is what it was before.
C9_AllOrNothing ==
    [][(/\ last'.cmd \in {"move_todo_item", "update_todo_status", "decrement_todo"}
        /\ ~last'.ok)
       => todos' = todos]_vars

Mutators == {"update_todo_status", "move_todo_item", "remove_todo_item",
             "set_todo_count", "decrement_todo", "update_todo_text"}

MaxUiId == 2
\* Largest number of invoke calls awaited at the same time in SpecUI.
MaxInflight == 2
\* Largest position a row of the store takes in SpecUI.
MaxUiPos == 1

UiIds == 1..MaxUiId

\* drop_position below which a drop goes before the target (pos < 0.25)
BeforeZone == 25
\* drop_position above which a drop goes after the target (pos > 0.75)
AfterZone == 75
\* one relative_y in each of the three zones, in hundredths
DropPositions == {10, 50, 90}

\* A TodoItem as get_todos returns it and as the todos signal holds it.
UiTodoItem(id, r) ==
    [id |-> id, text |-> r.text, completed |-> r.completed,
     parent_id |-> r.parent_id, position |-> r.position,
     target_count |-> r.target_count, current_count |-> r.current_count]

\* The SELECT of get_todos without ORDER BY: the rows in rowid order.
RECURSIVE RowsByRowId(_, _)
RowsByRowId(T, S) ==
    IF S = {} THEN << >>
    ELSE LET n == CHOOSE n \in S : \A m \in S : n <= m
         IN  <<UiTodoItem(n, T[n])>> \o RowsByRowId(T, S \ {n})

\* get_todos: SELECT ... ORDER BY position ASC, rows of equal position in
\* rowid order
RECURSIVE RowsByPosition(_, _)
RowsByPosition(T, S) ==
    IF S = {} THEN << >>
    ELSE LET n == CHOOSE n \in S : \A m \in S :
                      \/ T[n].position < T[m].position
                      \/ T[n].position = T[m].position /\ n <= m
         IN  <<UiTodoItem(n, T[n])>> \o RowsByPosition(T, S \ {n})

\* get_todos returning the root rows only.
db_get_root_todos(T) == RowsByPosition(T, Siblings(T, None))

db_get_todos(T) == RowsByPosition(T, DOMAIN T)

\* load_todos: db::get_todos(..).unwrap_or_default()
\* get_todos returns Err when a position does not fit the i32 of TodoItem.
load_todos(fault) ==
    /\ ~hung
    /\ last' = Executed("load_todos", 0, FALSE,
                        ~fault /\ \A n \in DOMAIN todos : InI32(todos[n].position),
                        "list")
    /\ UNCHANGED <<todos, seq, hung, notes>>

\* iter().find(|t| t.id == id) on the snapshot
Find(U, id) ==
    LET S == {i \in 1..Len(U) : U[i].id = id}
    IN  IF S = {} THEN None
        ELSE Some(U[CHOOSE i \in S : \A j \in S : i <= j])

\* TodoList renders the items whose parent_id is the list's parent, from
\* the root list down: an item is on screen iff its chain of parents in
\* the snapshot ends at None.
RECURSIVE Rendered(_, _, _)
Rendered(U, id, fuel) ==
    LET t == Find(U, id)
    IN  IF t = None \/ fuel = 0 THEN FALSE
        ELSE IF t[1].parent_id = None THEN TRUE
        ELSE Rendered(U, t[1].parent_id[1], fuel - 1)

Displayed(U) == {id \in {U[i].id : i \in 1..Len(U)} : Rendered(U, id, Len(U))}

\* The is_descendant walk of the mouseup handler: "yes" when dragged_id is
\* met on the chain of parents from the target, "no" when the chain ends,
\* "loop" when the chain of the snapshot never ends.
RECURSIVE is_descendant(_, _, _, _)
is_descendant(U, check_id, dragged_id, fuel) ==
    IF check_id = None THEN "no"
    ELSE IF check_id[1] = dragged_id THEN "yes"
    ELSE IF fuel = 0 THEN "loop"
    ELSE LET t == Find(U, check_id[1])
         IN  is_descendant(U, IF t = None THEN None ELSE t[1].parent_id,
                           dragged_id, fuel - 1)

\* An invoke call of a spawned task and what the task does with the reply:
\* "push" the new item, "reload" (invoke load_todos), "set" the todos
\* signal, or nothing ("done").
Invoke(cmd, id, text, completed, target_parent_id, target_position, count, then) ==
    [cmd |-> cmd, id |-> id, text |-> text, completed |-> completed,
     target_parent_id |-> target_parent_id,
     target_position |-> target_position, count |-> count, then |-> then]

Reply(then, id, text, list) ==
    [then |-> then, id |-> id, text |-> text, list |-> list]

\* The mutating command alone, without the load_todos that follows it.
ReloadSkipped(cmd, id, completed, count) ==
    Invoke(cmd, id, "", completed, None, 0, count, "done")

Reload(cmd, id, completed, count) ==
    Invoke(cmd, id, "", completed, None, 0, count, "reload")

CanInvoke == Len(requests) + Len(replies) < MaxInflight

\* add_todo: invoke add_todo_item; the item is pushed when the id arrives
ui_add_todo(text, bound) ==
    /\ ~ui_hung
    /\ CanInvoke
    /\ seq + Cardinality({i \in 1..Len(requests) :
                             requests[i].cmd = "add_todo_item"}) < bound
    /\ requests' = Append(requests,
                          Invoke("add_todo_item", 0, text, FALSE, None, 0, None,
                                 "push"))
    /\ UNCHANGED <<storeVars, ui_todos, dragging_id, drop_target_id,
                   drop_position, ui_hung, replies>>

\* on_mousedown of a rendered item
ui_mousedown(id) ==
    /\ ~ui_hung
    /\ id \in Displayed(ui_todos)
    /\ dragging_id' = Some(id)
    /\ UNCHANGED <<storeVars, ui_todos, drop_target_id, drop_position,
                   ui_hung, requests, replies>>

\* update_position (mouseenter, mousemove) of a rendered item
ui_update_position(id, relative_y) ==
    /\ ~ui_hung
    /\ id \in Displayed(ui_todos)
    /\ dragging_id # None
    /\ drop_target_id' = Some(id)
    /\ drop_position' = relative_y
    /\ UNCHANGED <<storeVars, ui_todos, dragging_id, ui_hung, requests, replies>>

\* The decision of the mouseup handler without the adjustment of final_pos
\* for an item dragged down its own list.
DropPlanNoAdjust(U, dragged_id, target_id, pos) ==
    LET target == Find(U, target_id)
        dragged == Find(U, dragged_id)
        walk == is_descendant(U, Some(target_id), dragged_id, Len(U) + 1)
        final_parent == IF pos < BeforeZone \/ pos > AfterZone
                        THEN target[1].parent_id ELSE Some(target_id)
        final_pos == IF pos < BeforeZone THEN target[1].position
                     ELSE IF pos > AfterZone THEN target[1].position + 1
                     ELSE 0
        Plan(kind, parent, position) ==
            [kind |-> kind, final_parent |-> parent, final_pos |-> position]
    IN  IF target = None THEN Plan("return", None, 0)
        ELSE IF walk = "loop" THEN Plan("loop", None, 0)
        ELSE IF walk = "yes" THEN Plan("skip", None, 0)
        ELSE IF dragged = None THEN Plan("move", final_parent, final_pos)
        ELSE IF /\ dragged[1].parent_id = final_parent
                /\ dragged[1].position = final_pos
             THEN Plan("skip", None, 0)
        ELSE Plan("move", final_parent, final_pos)

\* What the mouseup handler decides from the snapshot: "return" (target
\* not in the snapshot), "loop", "skip" (descendant, or already in place)
\* or "move" with the parent and the position it sends.
DropPlan(U, dragged_id, target_id, pos) ==
    LET target == Find(U, target_id)
        dragged == Find(U, dragged_id)
        walk == is_descendant(U, Some(target_id), dragged_id, Len(U) + 1)
        final_parent == IF pos < BeforeZone \/ pos > AfterZone
                        THEN target[1].parent_id ELSE Some(target_id)
        final_pos == IF pos < BeforeZone THEN target[1].position
                     ELSE IF pos > AfterZone THEN target[1].position + 1
                     ELSE 0
        Plan(kind, parent, position) ==
            [kind |-> kind, final_parent |-> parent, final_pos |-> position]
    IN  IF target = None THEN Plan("return", None, 0)
        ELSE IF walk = "loop" THEN Plan("loop", None, 0)
        ELSE IF walk = "yes" THEN Plan("skip", None, 0)
        ELSE IF dragged = None THEN Plan("move", final_parent, final_pos)
        ELSE IF /\ dragged[1].parent_id = final_parent
                /\ dragged[1].position = final_pos
             THEN Plan("skip", None, 0)
        ELSE IF /\ dragged[1].parent_id = final_parent
                /\ dragged[1].position < final_pos
             THEN Plan("move", final_parent, final_pos - 1)
        ELSE Plan("move", final_parent, final_pos)

\* The global mouseup handler.
ui_mouseup ==
    /\ ~ui_hung
    /\ dragging_id # None
    /\ IF drop_target_id = None \/ drop_target_id = dragging_id
       THEN /\ dragging_id' = None
            /\ drop_target_id' = None
            /\ UNCHANGED <<ui_hung, requests>>
       ELSE LET plan == DropPlan(ui_todos, dragging_id[1], drop_target_id[1],
                                 drop_position)
            IN  /\ plan.kind = "move" => CanInvoke
                /\ ui_hung' = (plan.kind = "loop")
                /\ dragging_id' = IF plan.kind \in {"return", "loop"}
                                  THEN dragging_id ELSE None
                /\ drop_target_id' = IF plan.kind \in {"return", "loop"}
                                     THEN drop_target_id ELSE None
                /\ requests' = IF plan.kind = "move"
                               THEN Append(requests,
                                        Invoke("move_todo_item", dragging_id[1], "",
                                               FALSE, plan.final_parent,
                                               plan.final_pos, None, "reload"))
                               ELSE requests
    /\ UNCHANGED <<storeVars, ui_todos, drop_position, replies>>

is_countdown(t) == t.target_count # None /\ t.target_count[1] > 0

\* toggle_todo: the checkbox of a rendered item
ui_toggle_todo(id) ==
    /\ ~ui_hung
    /\ CanInvoke
    /\ id \in Displayed(ui_todos)
    /\ LET t == Find(ui_todos, id)[1]
       IN  /\ ~(is_countdown(t) /\ ~t.completed)
           /\ ui_todos' = [i \in 1..Len(ui_todos) |->
                             IF ui_todos[i].id = id
                             THEN [ui_todos[i] EXCEPT !.completed = ~t.completed]
                             ELSE ui_todos[i]]
           /\ requests' = Append(requests,
                                 Reload("update_todo_status", id, ~t.completed, None))
    /\ UNCHANGED <<storeVars, dragging_id, drop_target_id, drop_position,
                   ui_hung, replies>>

\* delete_todo: the item leaves the snapshot at once; nothing is reloaded
ui_delete_todo(id) ==
    /\ ~ui_hung
    /\ CanInvoke
    /\ id \in Displayed(ui_todos)
    /\ ui_todos' = SelectSeq(ui_todos, LAMBDA t : t.id # id)
    /\ requests' = Append(requests,
                          Invoke("remove_todo_item", id, "", FALSE, None, 0,
                                 None, "done"))
    /\ UNCHANGED <<storeVars, dragging_id, drop_target_id, drop_position,
                   ui_hung, replies>>

\* reset_all_todos: the reset button
ui_reset_all_todos ==
    /\ ~ui_hung
    /\ CanInvoke
    /\ requests' = Append(requests, Reload("reset_all_todos", 0, FALSE, None))
    /\ UNCHANGED <<storeVars, ui_todos, dragging_id, drop_target_id,
                   drop_position, ui_hung, replies>>

\* set_todo_count: the change of the count input of a rendered item
ui_set_todo_count(id, count) ==
    /\ ~ui_hung
    /\ CanInvoke
    /\ id \in Displayed(ui_todos)
    /\ requests' = Append(requests, Reload("set_todo_count", id, FALSE, count))
    /\ UNCHANGED <<storeVars, ui_todos, dragging_id, drop_target_id,
                   drop_position, ui_hung, replies>>

\* decrement_todo: the button shown in place of the checkbox of a rendered
\* item that has a countdown and is not completed
ui_decrement_todo(id) ==
    /\ ~ui_hung
    /\ CanInvoke
    /\ id \in Displayed(ui_todos)
    /\ LET t == Find(ui_todos, id)[1]
       IN  is_countdown(t) /\ ~t.completed
    /\ requests' = Append(requests, Reload("decrement_todo", id, FALSE, None))
    /\ UNCHANGED <<storeVars, ui_todos, dragging_id, drop_target_id,
                   drop_position, ui_hung, replies>>

\* update_note: the input event of the note's text area
ui_update_note(content) ==
    /\ ~ui_hung
    /\ CanInvoke
    /\ requests' = Append(requests,
                          Invoke("save_note_content", 0, content, FALSE, None, 0,
                                 None, "done"))
    /\ UNCHANGED <<storeVars, ui_todos, dragging_id, drop_target_id,
                   drop_position, ui_hung, replies>>

\* What the UI receives from a command: the id from add_todo_item, the
\* content from load_note (the default when get_note failed), the list from
\* load_todos (the default when get_todos failed).
ReplyTo(m, executed, N, T) ==
    Reply(m.then, executed.id,
          IF m.cmd = "load_note"
          THEN (IF executed.ok THEN db_get_note(N).content ELSE "")
          ELSE m.text,
          IF m.cmd = "load_todos" /\ executed.ok THEN db_get_todos(T) ELSE << >>)

\* The backend takes the oldest invoke call, runs its command and replies.
\* Positions stay within maxpos.
backend(bound, maxpos) ==
    /\ requests # << >>
    /\ LET m == Head(requests)
       IN  /\ \/ m.cmd = "add_todo_item" /\ add_todo_item(m.text, FALSE, bound)
              \/ m.cmd = "update_todo_status"
                 /\ update_todo_status(m.id, m.completed, FALSE)
              \/ m.cmd = "remove_todo_item" /\ remove_todo_item(m.id, FALSE)
              \/ m.cmd = "move_todo_item"
                 /\ move_todo_item(m.id, m.target_parent_id, m.target_position, FALSE)
              \/ m.cmd = "reset_all_todos" /\ reset_all_todos(FALSE)
              \/ m.cmd = "set_todo_count" /\ set_todo_count(m.id, m.count, FALSE)
              \/ m.cmd = "decrement_todo" /\ decrement_todo(m.id, 0)
              \/ m.cmd = "load_todos" /\ load_todos(FALSE)
              \/ m.cmd = "load_note" /\ load_note(FALSE)
              \/ m.cmd = "save_note_content" /\ save_note_content(m.text, FALSE)
           /\ requests' = Tail(requests)
           /\ replies' = IF last'.reply = "pending" THEN replies
                         ELSE Append(replies, ReplyTo(m, last', notes, todos))
    /\ \A n \in DOMAIN todos' : todos'[n].position <= maxpos
    /\ UNCHANGED <<ui_todos, dragging_id, drop_target_id, drop_position, ui_hung>>

\* The backend takes the oldest invoke call while the storage fails: the
\* connection cannot be opened or a statement returns an error, and in
\* decrement_todo the failure comes before the UPDATE (1) or after it (2).
backend_failing(bound) ==
    /\ requests # << >>
    /\ LET m == Head(requests)
       IN  /\ \/ m.cmd = "add_todo_item" /\ add_todo_item(m.text, TRUE, bound)
              \/ m.cmd = "update_todo_status"
                 /\ update_todo_status(m.id, m.completed, TRUE)
              \/ m.cmd = "remove_todo_item" /\ remove_todo_item(m.id, TRUE)
              \/ m.cmd = "move_todo_item"
                 /\ move_todo_item(m.id, m.target_parent_id, m.target_position, TRUE)
              \/ m.cmd = "reset_all_todos" /\ reset_all_todos(TRUE)
              \/ m.cmd = "set_todo_count" /\ set_todo_count(m.id, m.count, TRUE)
              \/ m.cmd = "decrement_todo"
                 /\ \E fault \in 1..2 : decrement_todo(m.id, fault)
              \/ m.cmd = "load_todos" /\ load_todos(TRUE)
              \/ m.cmd = "load_note" /\ load_note(TRUE)
              \/ m.cmd = "save_note_content" /\ save_note_content(m.text, TRUE)
           /\ requests' = Tail(requests)
           /\ replies' = Append(replies, ReplyTo(m, last', notes, todos))
    /\ UNCHANGED <<ui_todos, dragging_id, drop_target_id, drop_position, ui_hung>>

\* run(): setup calls init_db before any command is served, and the App
\* that mounts in the new process has fresh signals, nothing in flight, and
\* an Effect that invokes load_note and then load_todos.
run ==
    /\ notes' = db_init_notes(notes)
    /\ hung' = FALSE
    /\ last' = Executed("init_db", 0, FALSE, TRUE, "unit")
    /\ UNCHANGED <<todos, seq>>
    /\ ui_todos' = << >>
    /\ dragging_id' = None
    /\ drop_target_id' = None
    /\ drop_position' = 50
    /\ ui_hung' = FALSE
    /\ requests' = <<Invoke("load_note", 0, "", FALSE, None, 0, None, "reload")>>
    /\ replies' = << >>

\* The task awaiting the oldest reply resumes.
ui_reply ==
    /\ ~ui_hung
    /\ replies # << >>
    /\ LET r == Head(replies)
       IN  /\ replies' = Tail(replies)
           /\ ui_todos' =
                 IF r.then = "push" /\ r.id # 0
                 THEN Append(ui_todos,
                             UiTodoItem(r.id, TodoItem(r.text, FALSE, None,
                                                       0, None, 0)))
                 ELSE IF r.then = "set" THEN r.list
                 ELSE ui_todos
           /\ requests' =
                 IF r.then = "reload"
                 THEN Append(requests,
                             Invoke("load_todos", 0, "", FALSE, None, 0, None,
                                    "set"))
                 ELSE requests
    /\ UNCHANGED <<storeVars, dragging_id, drop_target_id, drop_position, ui_hung>>

\* -------------------------------------------------------------- SpecUI
\* The handlers of the UI that create, move, delete, complete and reset,
\* the backend and the replies, in any interleaving.
NextUI ==
    \/ ui_add_todo(DefaultText, MaxUiId)
    \/ \E id \in UiIds : ui_mousedown(id)
    \/ \E id \in UiIds, relative_y \in DropPositions :
          ui_update_position(id, relative_y)
    \/ ui_mouseup
    \/ \E id \in UiIds : ui_toggle_todo(id)
    \/ \E id \in UiIds : ui_delete_todo(id)
    \/ ui_reset_all_todos
    \/ backend(MaxUiId, MaxUiPos)
    \/ ui_reply

SpecUI == Init /\ [][NextUI]_vars

\* C1: in every reachable state of the UI and the store together the
\* parent_id relation is acyclic: no row is its own ancestor.
C1_Acyclic == \A n \in DOMAIN todos : n \notin ProperAncestors(todos, n)

\* ------------------------------------------------------------ SpecMove
\* move_todo_item invoked with any arguments, one call awaited at a time,
\* on every forest of up to MaxMoveNodes rows whose sibling groups are in
\* any order with positions 0 .. k-1; the todos signal holds what load_todos
\* returned on mount.
MaxMoveNodes == 3
\* Largest target_position invoked, and largest position a row takes, in SpecMove.
MaxMovePos == 3

MoveIds == 1..MaxMoveNodes
MoveParents == {None} \cup {Some(i) : i \in MoveIds}

\* The forests of n rows with each sibling group in any order.
OrderedForests(n) ==
    {T \in {[i \in NodeIds(n) |-> TodoItem(DefaultText, FALSE, par[i], ord[i], None, 0)] :
               par \in Forests(n), ord \in [NodeIds(n) -> 0..(n - 1)]} :
        \A p \in {T[i].parent_id : i \in NodeIds(n)} :
            {T[i].position : i \in Siblings(T, p)} = 0..(Cardinality(Siblings(T, p)) - 1)}

InitMove ==
    /\ \E n \in 0..MaxMoveNodes :
         /\ seq = n
         /\ todos \in OrderedForests(n)
    /\ hung = FALSE
    /\ last = Executed("init_db", 0, FALSE, TRUE, "unit")
    /\ notes = db_init_notes(<< >>)
    /\ ui_todos = db_get_todos(todos)
    /\ dragging_id = None
    /\ drop_target_id = None
    /\ drop_position = 50
    /\ ui_hung = FALSE
    /\ requests = << >>
    /\ replies = << >>

\* invoke("move_todo_item", MoveTodoArgs { id, target_parent_id,
\* target_position }), followed by the reload
invoke_move_todo_item(id, target_parent_id, target_position) ==
    /\ requests = << >>
    /\ replies = << >>
    /\ requests' = <<Invoke("move_todo_item", id, "", FALSE, target_parent_id,
                            target_position, None, "reload")>>
    /\ UNCHANGED <<storeVars, ui_todos, dragging_id, drop_target_id,
                   drop_position, ui_hung, replies>>

NextMove ==
    \/ \E id \in MoveIds, p \in MoveParents, pos \in 0..MaxMovePos :
          invoke_move_todo_item(id, p, pos)
    \/ backend(MaxMoveNodes, MaxMovePos)
    \/ ui_reply

SpecMove == InitMove /\ [][NextMove]_vars

\* The backend is about to run a move_todo_item call that names a row of
\* the table and a target parent that is absent or a row of the table.
MoveAtHead ==
    /\ requests # << >>
    /\ Head(requests).cmd = "move_todo_item"
    /\ Head(requests).id \in DOMAIN todos
    /\ ForeignKeyOk(todos, Head(requests).target_parent_id)

\* The position of row n of T after the source group has closed the gap
\* above old_position and the target group has opened one at target_position.
ShiftedPosition(T, n, old_parent_id, old_position, target_parent_id, target_position) ==
    LET closed == IF T[n].parent_id = old_parent_id /\ T[n].position > old_position
                  THEN T[n].position - 1 ELSE T[n].position
    IN  IF T[n].parent_id = target_parent_id /\ closed >= target_position
        THEN closed + 1 ELSE closed

\* C11: move(id, target_parent_id, target_position) on an existing row (and
\* an existing or absent target parent) leaves exactly this table: every row
\* of the source group above the row's old position is decremented, then
\* every row of the target group at or above target_position (after that
\* shift) is incremented, then the row gets the target parent and position;
\* also when the source and the target group are the same. Nothing else
\* changes.
C11_MovePostState ==
    [][(MoveAtHead /\ requests' = Tail(requests))
       => LET m == Head(requests)
              old == todos[m.id]
          IN  /\ last'.cmd = "move_todo_item" /\ last'.ok
              /\ DOMAIN todos' = DOMAIN todos
              /\ todos'[m.id] = [old EXCEPT !.parent_id = m.target_parent_id,
                                            !.position = m.target_position]
              /\ \A n \in DOMAIN todos \ {m.id} :
                    todos'[n] = [todos[n] EXCEPT !.position =
                                    ShiftedPosition(todos, n, old.parent_id,
                                                    old.position,
                                                    m.target_parent_id,
                                                    m.target_position)]]_vars

\* a row was moved up within its group of three: the snapshot taken before
\* the move shows it last, and the table has it first
C11_Witness ==
    /\ last.cmd = "move_todo_item" /\ last.ok
    /\ Len(ui_todos) = MaxMoveNodes
    /\ \E i \in 1..Len(ui_todos) :
          /\ ui_todos[i].id = last.id
          /\ ui_todos[i].parent_id = None /\ ui_todos[i].position = 2
    /\ \A i \in 1..Len(ui_todos) : ui_todos[i].parent_id = None
    /\ todos[last.id].parent_id = None /\ todos[last.id].position = 0
    /\ {todos[n].position : n \in DOMAIN todos} = 0..2

\* the positions of group p of T are exactly 0 .. k-1
GroupContiguous(T, p) ==
    GroupPositions(T, p) = 0..(Cardinality(Siblings(T, p)) - 1)

\* The rows of group p of T in the order of their positions, as read_all's
\* caller lists them (for a group with positions 0 .. k-1).
GroupOrder(T, p) ==
    [i \in 1..Cardinality(Siblings(T, p)) |->
        CHOOSE n \in Siblings(T, p) : T[n].position = i - 1]

\* s with x inserted at index t (counted from 0)
InsertAt(s, t, x) == SubSeq(s, 1, t) \o <<x>> \o SubSeq(s, t + 1, Len(s))

\* C12: moving a row into a different group that has positions 0 .. m-1, at
\* target_position t with 0 <= t <= m, gives the target group in the order
\* obtained by inserting the row at index t, with positions exactly 0 .. m,
\* and the source group (positions 0 .. k-1 before) in its old order without
\* the row, with positions 0 .. k-2.
C12_CrossGroupInsert ==
    [][(/\ MoveAtHead /\ requests' = Tail(requests)
        /\ todos[Head(requests).id].parent_id # Head(requests).target_parent_id
        /\ GroupContiguous(todos, Head(requests).target_parent_id)
        /\ GroupContiguous(todos, todos[Head(requests).id].parent_id)
        /\ Head(requests).target_position
              <= Cardinality(Siblings(todos, Head(requests).target_parent_id)))
       => LET m == Head(requests)
              src == todos[m.id].parent_id
              tgt == m.target_parent_id
          IN  /\ GroupContiguous(todos', tgt)
              /\ GroupOrder(todos', tgt)
                    = InsertAt(GroupOrder(todos, tgt), m.target_position, m.id)
              /\ GroupContiguous(todos', src)
              /\ GroupOrder(todos', src)
                    = SelectSeq(GroupOrder(todos, src), LAMBDA n : n # m.id)]_vars

\* the example: with roots 1 and 2 and row 3 a child of 1 (as the snapshot
\* taken before the move shows), row 3 was moved to the root at position 1
\* and the root order is 1, 3, 2
C12_Witness ==
    /\ last.cmd = "move_todo_item" /\ last.ok /\ last.id = 3
    /\ \E i \in 1..Len(ui_todos) :
          ui_todos[i].id = 3 /\ ui_todos[i].parent_id = Some(1)
    /\ \E i \in 1..Len(ui_todos) :
          ui_todos[i].id = 2 /\ ui_todos[i].parent_id = None
                             /\ ui_todos[i].position = 1
    /\ DOMAIN todos = 1..3
    /\ GroupOrder(todos, None) = <<1, 3, 2>>
    /\ GroupContiguous(todos, None)

\* ------------------------------------------------------------ SpecDrop
\* Drag and drop on every ordered forest of up to MaxMoveNodes rows, the
\* todos signal holding what load_todos returned on mount: the three mouse
\* handlers, the backend and the replies, each drop released after the
\* reload of the one before has arrived.
NextDrop ==
    \/ \E id \in MoveIds : ui_mousedown(id)
    \/ \E id \in MoveIds, relative_y \in DropPositions :
          ui_update_position(id, relative_y)
    \/ ui_mouseup /\ requests = << >> /\ replies = << >>
    \/ backend(MaxMoveNodes, MaxMovePos)
    \/ ui_reply

SpecDrop == InitMove /\ [][NextDrop]_vars

\* index of x in the sequence s (0 when absent)
IndexOf(s, x) ==
    IF \E i \in 1..Len(s) : s[i] = x
    THEN CHOOSE i \in 1..Len(s) : s[i] = x ELSE 0

\* The mouse is released over a sibling of the dragged item, in the BEFORE
\* or the AFTER zone, while the snapshot is what the store holds, the
\* positions are 0 .. k-1 and no call is in flight.
SameListDrop ==
    /\ dragging_id # None /\ drop_target_id # None
    /\ dragging_id # drop_target_id
    /\ requests = << >> /\ replies = << >>
    /\ ui_todos = db_get_todos(todos)
    /\ Contiguous(todos)
    /\ dragging_id[1] \in DOMAIN todos /\ drop_target_id[1] \in DOMAIN todos
    /\ todos[dragging_id[1]].parent_id = todos[drop_target_id[1]].parent_id
    /\ (drop_position < BeforeZone \/ drop_position > AfterZone)

\* the position the drop asks for before any adjustment: the target's
\* (BEFORE) or the one after it (AFTER)
RequestedPosition ==
    IF drop_position < BeforeZone THEN todos[drop_target_id[1]].position
    ELSE todos[drop_target_id[1]].position + 1

\* C13: for a drop within one sibling list decided from an up-to-date
\* snapshot with positions 0 .. n-1, the UI sends the requested position
\* lowered by 1 exactly when the item's position is below it, and the store,
\* applying its two shifts to that call, leaves the dragged item immediately
\* before the target (BEFORE) or immediately after it (AFTER), the other
\* siblings in their old relative order and the positions 0 .. n-1; an item
\* already in the requested place is not moved.
C13_SameListDrop ==
    [][(SameListDrop /\ dragging_id' = None)
       => LET d == dragging_id[1]
              t == drop_target_id[1]
              p == todos[d].parent_id
              others == SelectSeq(GroupOrder(todos, p), LAMBDA n : n # d)
              at == IF drop_position < BeforeZone THEN IndexOf(others, t) - 1
                    ELSE IndexOf(others, t)
              wanted == InsertAt(others, at, d)
          IN  IF todos[d].position = RequestedPosition
              THEN requests' = << >> /\ GroupOrder(todos, p) = wanted
              ELSE /\ Len(requests') = 1
                   /\ requests'[1].cmd = "move_todo_item"
                   /\ requests'[1].id = d
                   /\ requests'[1].target_parent_id = p
                   /\ requests'[1].target_position =
                         IF todos[d].position < RequestedPosition
                         THEN RequestedPosition - 1 ELSE RequestedPosition
                   /\ LET after == db_move_todo(todos, d, p,
                                       requests'[1].target_position, FALSE).T
                      IN  /\ GroupContiguous(after, p)
                          /\ GroupOrder(after, p) = wanted
                          /\ \A n \in DOMAIN todos :
                                todos[n].parent_id # p => after[n] = todos[n]]_vars

\* the first of three roots was dropped after the second: the snapshot still
\* shows the order 1, 2, 3 and the store holds 2, 1, 3
C13_Witness ==
    /\ last.cmd = "move_todo_item" /\ last.ok /\ last.id = 1
    /\ Len(ui_todos) = 3
    /\ \A i \in 1..3 : ui_todos[i].id = i /\ ui_todos[i].parent_id = None
                       /\ ui_todos[i].position = i - 1
    /\ drop_position > AfterZone
    /\ DOMAIN todos = 1..3
    /\ GroupContiguous(todos, None)
    /\ GroupOrder(todos, None) = <<2, 1, 3>>

\* ---------------------------------------------------------------- create
\* C14: create(text) adds exactly one row, at the root, whose position is
\* the largest position among the root rows plus 1, or 0 when there is no
\* root row, and whose completed is false; every other row stays as it
\* was, and a row with the same text already in the table does not make it
\* fail.
C14_CreateAppends ==
    [][(last'.cmd = "add_todo_item" /\ todos' # todos)
       => LET id == last'.id
              roots == Siblings(todos, None)
          IN  /\ last'.ok
              /\ id \notin DOMAIN todos
              /\ DOMAIN todos' = DOMAIN todos \cup {id}
              /\ \A n \in DOMAIN todos : todos'[n] = todos[n]
              /\ todos'[id].parent_id = None
              /\ todos'[id].completed = FALSE
              /\ IF roots = {} THEN todos'[id].position = 0
                 ELSE /\ \E s \in roots : todos'[id].position = todos[s].position + 1
                      /\ \A s \in roots : todos'[id].position > todos[s].position]_vars

\* a row was created next to a root that has the same text and does not
\* sit at position 0
C14_Witness ==
    /\ last.cmd = "add_todo_item" /\ last.ok
    /\ last.id \in DOMAIN todos
    /\ \E s \in Siblings(todos, None) \ {last.id} :
          /\ todos[s].text = todos[last.id].text
          /\ todos[s].position > 0
          /\ todos[last.id].position = todos[s].position + 1

\* C15: in a sequence of creates with no other operation in between, each
\* create assigns the position of the create before it plus 1.
C15_CreatesIncreaseByOne ==
    [][(/\ last.cmd = "add_todo_item" /\ last.ok
        /\ last'.cmd = "add_todo_item" /\ last'.ok
        /\ todos' # todos)
       => todos'[last'.id].position = todos[last.id].position + 1]_vars

\* the third create in a row: rows 1, 2 and 3 are roots at 0, 1 and 2
C15_Witness ==
    /\ last.cmd = "add_todo_item" /\ last.ok /\ last.id = 3
    /\ DOMAIN todos = 1..3
    /\ \A n \in 1..3 : todos[n].parent_id = None /\ todos[n].position = n - 1

\* ---------------------------------------------------------- SpecCreate
\* add_todo with either text on every ordered forest of up to MaxMoveNodes
\* rows: the handler, the backend and the replies in any interleaving.
NextCreate ==
    \/ \E text \in Texts : ui_add_todo(text, MaxMoveNodes)
    \/ backend(MaxMoveNodes, MaxMovePos)
    \/ ui_reply

SpecCreate == InitMove /\ [][NextCreate]_vars

\* C16: after create(text) has returned id, read_all() returns exactly one
\* row with that id, and it has that text, completed = false and no parent;
\* every row that was in the table before is returned as it was, and nothing
\* else is returned.
C16_CreateRoundTrip ==
    [][(/\ requests # << >> /\ requests' = Tail(requests)
        /\ Head(requests).cmd = "add_todo_item")
       => LET text == Head(requests).text
              id == replies'[Len(replies')].id
              read_all == db_get_todos(todos')
              Returned(n) == {i \in 1..Len(read_all) : read_all[i].id = n}
          IN  /\ id # 0
              /\ Cardinality(Returned(id)) = 1
              /\ \A i \in Returned(id) :
                    /\ read_all[i].text = text
                    /\ read_all[i].completed = FALSE
                    /\ read_all[i].parent_id = None
              /\ \A n \in DOMAIN todos :
                    /\ n # id
                    /\ Cardinality(Returned(n)) = 1
                    /\ \A i \in Returned(n) : read_all[i] = UiTodoItem(n, todos[n])
              /\ Len(read_all) = Cardinality(DOMAIN todos) + 1]_vars

\* a row with the text "edited" was created in a table that holds a parent
\* and its child
C16_Witness ==
    /\ last.cmd = "add_todo_item" /\ last.ok /\ last.id = 3
    /\ DOMAIN todos = 1..3
    /\ todos[3].text = "edited"
    /\ todos[2].parent_id = Some(1)
    /\ replies # << >> /\ replies[Len(replies)].id = 3

\* C17: ids are unique and never reused. seq is at least every id the table
\* ever held and never decreases; a create returns an id above seq, so one
\* that differs from every id returned before, also after the row with the
\* highest id was deleted; and no other operation brings an id into the
\* table, so no row changes its id.
C17_IdsNeverReused ==
    [][/\ seq' >= seq
       /\ \A n \in DOMAIN todos' : n <= seq'
       /\ (last'.cmd = "add_todo_item" /\ last'.ok /\ todos' # todos)
             => (/\ last'.id > seq
                 /\ seq' = last'.id
                 /\ DOMAIN todos' = DOMAIN todos \cup {last'.id})
       /\ ~(last'.cmd = "add_todo_item" /\ last'.ok /\ todos' # todos)
             => DOMAIN todos' \subseteq DOMAIN todos]_vars

\* row 2, which had the highest id, was deleted, and the create after it
\* returned 3
C17_Witness ==
    /\ last.cmd = "add_todo_item" /\ last.ok /\ last.id = 3
    /\ DOMAIN todos = {1, 3}
    /\ seq = 3

\* ----------------------------------------------------------- SpecCount
\* The countdown of up to MaxCountId root rows: the commands issued one at a
\* time with the arguments the UI sends (a count is absent or positive).
MaxCountId == 2
\* Largest count set_todo_count is issued with in SpecCount.
MaxCountdown == 3

CountIds == 1..MaxCountId
\* val.parse::<i32>().ok().filter(|&c| c > 0)
CountdownCounts == {None} \cup {Some(c) : c \in 1..MaxCountdown}

NextCount ==
    \/ add_todo_item(DefaultText, FALSE, MaxCountId) /\ UiIdle
    \/ \E id \in CountIds, count \in CountdownCounts :
          set_todo_count(id, count, FALSE) /\ UiIdle
    \/ \E id \in CountIds : decrement_todo(id, 0) /\ UiIdle
    \/ \E id \in CountIds, completed \in BOOLEAN :
          update_todo_status(id, completed, FALSE) /\ UiIdle
    \/ reset_all_todos(FALSE) /\ UiIdle

SpecCount == Init /\ [][NextCount]_vars

\* C18: set_counter(id, n) with n > 0 leaves current_count = n; each
\* decrement(id) after it lowers current_count by 1 and never below 0, so k
\* of them leave max(n - k, 0); the decrement that reaches 0 (the n-th)
\* leaves completed = true, the ones before it leave completed as it was,
\* and every further decrement leaves current_count = 0.
C18_Countdown ==
    [][/\ (/\ last'.cmd = "set_todo_count" /\ last'.ok
           /\ last'.id \in DOMAIN todos /\ todos'[last'.id].target_count # None)
             => todos'[last'.id].current_count = todos'[last'.id].target_count[1]
       /\ (/\ last'.cmd = "decrement_todo" /\ last'.ok
           /\ last'.id \in DOMAIN todos /\ todos[last'.id].target_count # None)
             => LET before == todos[last'.id]
                    after == todos'[last'.id]
                IN  /\ after.target_count = before.target_count
                    /\ after.current_count =
                          IF before.current_count - 1 > 0
                          THEN before.current_count - 1 ELSE 0
                    /\ after.current_count = 0 => after.completed
                    /\ after.current_count > 0
                          => after.completed = before.completed]_vars

\* the third decrement after set_counter(id, 3): the count is 0 and the row
\* is completed
C18_Witness ==
    /\ last.cmd = "decrement_todo" /\ last.ok
    /\ last.id \in DOMAIN todos
    /\ todos[last.id].target_count = Some(3)
    /\ todos[last.id].current_count = 0
    /\ todos[last.id].completed

\* C19: in every reachable state every row with a countdown has
\* 0 <= current_count <= target_count, and one whose current_count is 0 is
\* completed.
C19_CountInRangeAndDone ==
    \A n \in DOMAIN todos :
        todos[n].target_count # None =>
            /\ 0 <= todos[n].current_count
            /\ todos[n].current_count <= todos[n].target_count[1]
            /\ todos[n].current_count = 0 => todos[n].completed

\* ------------------------------------------------------- SpecCountdown
\* The countdown and the completion cascade together, on every forest of up
\* to MaxNodes rows with any completed flags and armed countdowns.
NextCountdown ==
    \/ \E id \in NodeIds(MaxNodes) : decrement_todo(id, 0) /\ UiIdle
    \/ \E id \in NodeIds(MaxNodes), completed \in BOOLEAN :
          update_todo_status(id, completed, FALSE) /\ UiIdle
    \/ reset_all_todos(FALSE) /\ UiIdle

SpecCountdown == InitCascade /\ [][NextCountdown]_vars

\* C20: a decrement(id) that brings current_count to 0 runs the cascade of
\* set_completed(id, true): id and every row below it are completed, and
\* every ancestor of id is completed exactly when all its children are, so
\* a parent whose other children were complete becomes complete in the same
\* decrement.
C20_DecrementCascades ==
    [][(/\ last'.cmd = "decrement_todo" /\ last'.ok
        /\ last'.id \in DOMAIN todos
        /\ todos[last'.id].current_count > 0
        /\ todos'[last'.id].current_count = 0)
       => /\ \A n \in {last'.id} \cup Below(todos, last'.id) : todos'[n].completed
          /\ \A a \in ProperAncestors(todos, last'.id) :
                todos'[a].completed = ChildrenRule(todos', a)
          /\ todos[last'.id].parent_id # None
                => LET p == todos[last'.id].parent_id[1]
                   IN  todos'[p].completed =
                          (\A s \in Children(todos, p) \ {last'.id} :
                              todos[s].completed)]_vars

\* the countdown of the last incomplete child of an incomplete parent
\* reached 0 and parent and child are complete
C20_Witness ==
    /\ last.cmd = "decrement_todo" /\ last.ok
    /\ last.id \in DOMAIN todos
    /\ todos[last.id].target_count # None /\ todos[last.id].current_count = 0
    /\ todos[last.id].parent_id # None
    /\ Cardinality(Children(todos, todos[last.id].parent_id[1])) >= 2
    /\ todos[todos[last.id].parent_id[1]].completed

\* --------------------------------------------------------- SpecSetCount
\* The count input and the countdown button on every forest of up to
\* MaxNodes rows with any completed flags and armed countdowns, the todos
\* signal holding what load_todos returned on mount; each handler runs after
\* the reload of the one before has arrived.
\* Largest count the count input sends in SpecSetCount.
MaxSetCount == 2
SetCounts == {None} \cup {Some(c) : c \in 1..MaxSetCount}

InitLoaded ==
    /\ \E n \in 0..MaxNodes :
         /\ seq = n
         /\ \E par \in Forests(n), done \in [NodeIds(n) -> BOOLEAN],
               armed \in [NodeIds(n) -> BOOLEAN] :
               todos = ForestTable(par, done, armed)
    /\ hung = FALSE
    /\ last = Executed("init_db", 0, FALSE, TRUE, "unit")
    /\ notes = db_init_notes(<< >>)
    /\ ui_todos = db_get_todos(todos)
    /\ dragging_id = None
    /\ drop_target_id = None
    /\ drop_position = 50
    /\ ui_hung = FALSE
    /\ requests = << >>
    /\ replies = << >>

NothingInFlight == requests = << >> /\ replies = << >>

NextSetCount ==
    \/ \E id \in NodeIds(MaxNodes), count \in SetCounts :
          ui_set_todo_count(id, count) /\ NothingInFlight
    \/ \E id \in NodeIds(MaxNodes) : ui_decrement_todo(id) /\ NothingInFlight
    \/ backend(MaxNodes, MaxNodes)
    \/ ui_reply

SpecSetCount == InitLoaded /\ [][NextSetCount]_vars

\* C21: set_counter(id, c) on an existing row sets target_count = c and
\* current_count = c (target_count absent and current_count = 0 when c is
\* absent) and changes nothing else: completed of the row stays as it was,
\* also when an exhausted countdown had completed it, and no other row
\* changes.
C21_SetCountFrame ==
    [][(/\ requests # << >> /\ requests' = Tail(requests)
        /\ Head(requests).cmd = "set_todo_count"
        /\ Head(requests).id \in DOMAIN todos)
       => LET m == Head(requests)
          IN  /\ last'.cmd = "set_todo_count" /\ last'.ok
              /\ todos' = [todos EXCEPT ![m.id] =
                             [@ EXCEPT !.target_count = m.count,
                                       !.current_count = IF m.count = None THEN 0
                                                         ELSE m.count[1]]]]_vars

\* the count of a row was set to 2 while the snapshot, not yet reloaded,
\* shows the row completed by its exhausted countdown of 1: the row is still
\* completed, with 2 left
C21_Witness ==
    /\ last.cmd = "set_todo_count" /\ last.ok
    /\ last.id \in DOMAIN todos
    /\ \E i \in 1..Len(ui_todos) :
          /\ ui_todos[i].id = last.id
          /\ ui_todos[i].target_count = Some(1)
          /\ ui_todos[i].current_count = 0
          /\ ui_todos[i].completed
    /\ todos[last.id].completed
    /\ todos[last.id].target_count = Some(2)
    /\ todos[last.id].current_count = 2

\* ------------------------------------------------------------ SpecFrame
\* The operations that rewrite flags, counts and texts or remove rows, one
\* at a time, on every forest of up to MaxNodes rows with any completed
\* flags and armed countdowns.
NextFrame ==
    \/ \E id \in NodeIds(MaxNodes), completed \in BOOLEAN :
          update_todo_status(id, completed, FALSE) /\ UiIdle
    \/ \E id \in NodeIds(MaxNodes) : decrement_todo(id, 0) /\ UiIdle
    \/ \E id \in NodeIds(MaxNodes) : remove_todo_item(id, FALSE) /\ UiIdle
    \/ \E id \in NodeIds(MaxNodes), text \in Texts :
          update_todo_text(id, text, FALSE) /\ UiIdle
    \/ reset_all_todos(FALSE) /\ UiIdle

SpecFrame == InitCascade /\ [][NextFrame]_vars

\* C22: reset_all() keeps the set of rows and, on every row, sets completed
\* = false and current_count = target_count (0 when target_count is absent),
\* leaving id, text, parent_id, position and target_count as they were.
C22_ResetAllFrame ==
    [][(last'.cmd = "reset_all_todos" /\ last'.ok)
       => /\ DOMAIN todos' = DOMAIN todos
          /\ \A n \in DOMAIN todos :
                todos'[n] = [todos[n] EXCEPT
                                !.completed = FALSE,
                                !.current_count =
                                    IF todos[n].target_count = None THEN 0
                                    ELSE todos[n].target_count[1]]]_vars

\* reset_all has run on a table with a renamed row, a parent and a child
\* and a countdown: the countdown is full again and no row is completed
C22_Witness ==
    /\ last.cmd = "reset_all_todos" /\ last.ok
    /\ \E n \in DOMAIN todos : todos[n].text = "edited"
    /\ \E n \in DOMAIN todos : todos[n].parent_id # None
    /\ \E n \in DOMAIN todos :
          todos[n].target_count = Some(1) /\ todos[n].current_count = 1
    /\ \A n \in DOMAIN todos : ~todos[n].completed

\* C23: delete(id) leaves every row that is neither id nor below id as it
\* was, in every field: the positions of the following siblings are not
\* shifted and the parent's completed is not recomputed.
C23_DeleteFrame ==
    [][(last'.cmd = "remove_todo_item" /\ last'.ok /\ last'.id \in DOMAIN todos)
       => \A n \in DOMAIN todos \ ({last'.id} \cup Below(todos, last'.id)) :
             n \in DOMAIN todos' /\ todos'[n] = todos[n]]_vars

\* of three rows, row 1, a root, was deleted last: row 2 is alone in the
\* table, still at position 1 and completed, with no child
C23_Witness ==
    /\ last.cmd = "remove_todo_item" /\ last.ok /\ last.id = 1
    /\ seq = MaxNodes
    /\ DOMAIN todos = {2}
    /\ todos[2].parent_id = None /\ todos[2].position = 1
    /\ todos[2].completed

\* C24: update_text(id, text) changes only the text of row id: its other
\* fields and every other row stay as they were, so no completion cascade
\* has run.
C24_UpdateTextFrame ==
    [][(last'.cmd = "update_todo_text" /\ last'.ok /\ last'.id \in DOMAIN todos)
       => /\ todos'[last'.id].text \in Texts
          /\ todos' = [todos EXCEPT ![last'.id] =
                          [@ EXCEPT !.text = todos'[last'.id].text]]]_vars

\* a row with a countdown and a child was renamed below a parent whose
\* completed differs from what its children give
C24_Witness ==
    /\ last.cmd = "update_todo_text" /\ last.ok
    /\ last.id \in DOMAIN todos
    /\ todos[last.id].text = "edited"
    /\ todos[last.id].target_count # None
    /\ Children(todos, last.id) # {}
    /\ todos[last.id].parent_id # None
    /\ todos[todos[last.id].parent_id[1]].completed
          # ChildrenRule(todos, todos[last.id].parent_id[1])
    /\ todos[todos[last.id].parent_id[1]].text = DefaultText

\* -------------------------------------------------------------- read_all
\* TodoList: the items of the todos signal whose parent_id is the list's,
\* in the order of the signal
TodoListItems(U, parent_id) == SelectSeq(U, LAMBDA t : t.parent_id = parent_id)

Ascending(G) == \A i, j \in 1..Len(G) : i < j => G[i].position <= G[j].position

\* C25: read_all() returns every stored row exactly once, as stored, and
\* the rows of every parent_id group appear in it in ascending position
\* order; so the list the UI builds for each parent by filtering the
\* reloaded snapshot, without sorting, is in position order.
C25_ReadAllOrdered ==
    LET read_all == db_get_todos(todos)
    IN  /\ Len(read_all) = Cardinality(DOMAIN todos)
        /\ \A n \in DOMAIN todos :
              \E i \in 1..Len(read_all) : read_all[i] = UiTodoItem(n, todos[n])
        /\ \A p \in MoveParents : Ascending(TodoListItems(read_all, p))
        /\ \A p \in MoveParents : Ascending(TodoListItems(ui_todos, p))

\* after a move and its reload the snapshot lists three roots in the order
\* 3, 1, 2 of their positions, not of their ids
C25_Witness ==
    /\ last.cmd = "load_todos"
    /\ requests = << >> /\ replies = << >>
    /\ Len(ui_todos) = 3
    /\ ui_todos = db_get_todos(todos)
    /\ ui_todos[1].id = 3 /\ ui_todos[2].id = 1 /\ ui_todos[3].id = 2
    /\ \A i \in 1..3 : ui_todos[i].parent_id = None /\ ui_todos[i].position = i - 1

\* ------------------------------------------------------------ SpecTurns
\* Every handler of the UI that mutates, taking turns: a handler runs once
\* the task of the one before has finished, its reload included.
NextTurns ==
    \/ ui_add_todo(DefaultText, MaxUiId) /\ NothingInFlight
    \/ \E id \in UiIds : ui_toggle_todo(id) /\ NothingInFlight
    \/ \E id \in UiIds : ui_delete_todo(id) /\ NothingInFlight
    \/ \E id \in UiIds : ui_mousedown(id)
    \/ \E id \in UiIds, relative_y \in DropPositions :
          ui_update_position(id, relative_y)
    \/ ui_mouseup /\ NothingInFlight
    \/ \E id \in UiIds, count \in Counts :
          ui_set_todo_count(id, count) /\ NothingInFlight
    \/ \E id \in UiIds : ui_decrement_todo(id) /\ NothingInFlight
    \/ ui_reset_all_todos /\ NothingInFlight
    \/ backend(MaxUiId, MaxUiPos)
    \/ ui_reply

SpecTurns == Init /\ [][NextTurns]_vars

\* ------------------------------------------------------------- snapshot
\* The todos signal holds exactly the rows of the table, each with the
\* completed, parent_id, position and counts the table holds.
SnapshotMatchesStore(U, T) ==
    /\ Len(U) = Cardinality(DOMAIN T)
    /\ {U[i].id : i \in 1..Len(U)} = DOMAIN T
    /\ \A i \in 1..Len(U) :
          /\ U[i].completed = T[U[i].id].completed
          /\ U[i].parent_id = T[U[i].id].parent_id
          /\ U[i].position = T[U[i].id].position
          /\ U[i].target_count = T[U[i].id].target_count
          /\ U[i].current_count = T[U[i].id].current_count

\* C26: whenever no call of the UI is in flight (every mutation it issued
\* has completed, with the reload that follows it), the snapshot equals the
\* table: the same rows with the same completed, parent_id, position and
\* counts.
C26_SnapshotRefreshed ==
    (requests = << >> /\ replies = << >>) => SnapshotMatchesStore(ui_todos, todos)

\* The spawned tasks that have not finished: each call on its way to the
\* backend and each reply not yet taken belongs to one task.
TasksInFlight == Len(requests) + Len(replies)

\* C27: the UI has at most one task in flight at any time, so never two
\* mutating commands, nor a mutating command and the reload that follows
\* another.
C27_OneMutationAtATime == TasksInFlight <= 1

\* ------------------------------------------------------------ SpecFault
\* The commands the UI invokes, each served by a storage that works or
\* fails; the app may be started again at any time, and a handler runs once
\* the task of the one before has finished.
NoteContents == {"", "note"}
UiParents == {None} \cup {Some(i) : i \in UiIds}

NextFault ==
    \/ run
    \/ ui_add_todo(DefaultText, MaxUiId) /\ NothingInFlight
    \/ \E id \in UiIds : ui_toggle_todo(id) /\ NothingInFlight
    \/ \E id \in UiIds : ui_delete_todo(id) /\ NothingInFlight
    \/ \E id \in UiIds, p \in UiParents : invoke_move_todo_item(id, p, 0)
    \/ \E id \in UiIds, count \in Counts :
          ui_set_todo_count(id, count) /\ NothingInFlight
    \/ \E id \in UiIds : ui_decrement_todo(id) /\ NothingInFlight
    \/ ui_reset_all_todos /\ NothingInFlight
    \/ \E content \in NoteContents : ui_update_note(content) /\ NothingInFlight
    \/ backend(MaxUiId, MaxUiPos)
    \/ backend_failing(MaxUiId)
    \/ ui_reply

SpecFault == Init /\ [][NextFault]_vars

\* C28: a command whose db function fails still returns, with the default
\* (the empty list from load_todos, the empty string from load_note, 0 from
\* add_todo_item), and leaves the tables as they were; and the UI pushes a
\* new item into its snapshot exactly when add_todo_item returned an id
\* other than 0.
C28_FailureLeavesStore ==
    [][/\ (/\ requests # << >> /\ requests' = Tail(requests)
           /\ last'.cmd = Head(requests).cmd /\ ~last'.ok)
             => /\ todos' = todos /\ notes' = notes /\ seq' = seq
                /\ ~hung'
                /\ Len(replies') = Len(replies) + 1
                /\ LET m == Head(requests)
                       r == replies'[Len(replies')]
                   IN  /\ m.cmd = "load_todos" => r.list = << >>
                       /\ m.cmd = "load_note" => r.text = ""
                       /\ m.cmd = "add_todo_item" => r.id = 0
       /\ (/\ replies # << >> /\ replies' = Tail(replies)
           /\ requests' = requests
           /\ Head(replies).then = "push")
             => IF Head(replies).id = 0 THEN ui_todos' = ui_todos
                ELSE Len(ui_todos') = Len(ui_todos) + 1]_vars

\* ------------------------------------------------------------- SpecNote
\* The note across starts of the app, from the database file that does not
\* exist yet: run() sets the app up, also again at any later time, and the
\* handlers, which exist once the app is set up, take turns.
InitFresh ==
    /\ todos = << >>
    /\ seq = 0
    /\ hung = FALSE
    /\ last = Executed("none", 0, FALSE, TRUE, "unit")
    /\ notes = << >>
    /\ InitUi

Launched == last.cmd # "none"

NextNote ==
    \/ run
    \/ \E content \in NoteContents \cup Texts :
          ui_update_note(content) /\ NothingInFlight /\ Launched
    \/ ui_add_todo(DefaultText, MaxUiId) /\ NothingInFlight /\ Launched
    \/ \E id \in UiIds : ui_toggle_todo(id) /\ NothingInFlight
    \/ backend(MaxUiId, MaxUiPos)
    \/ ui_reply

SpecNote == InitFresh /\ [][NextNote]_vars

\* C29: once init_db has run there is exactly one note record, the one with
\* id 1; init_db creates it with the empty string and, run again, leaves the
\* saved note and every todo row as they are; only save_note changes the
\* note, to the content it is given; and load_note returns the content the
\* record holds, so the content of the most recent save_note, or the empty
\* string when there was none.
C29_NoteSingleton ==
    [][/\ DOMAIN notes' = {1}
       /\ last'.cmd = "init_db"
             => /\ todos' = todos /\ seq' = seq
                /\ notes'[1] = IF notes = << >> THEN "" ELSE notes[1]
       /\ (/\ requests # << >> /\ requests' = Tail(requests)
           /\ Head(requests).cmd = "save_note_content")
             => notes'[1] = Head(requests).text
       /\ (/\ requests # << >> /\ requests' = Tail(requests)
           /\ Head(requests).cmd = "load_note")
             => /\ last'.cmd = "load_note" /\ last'.ok
                /\ replies'[Len(replies')].text = notes[1]
       /\ (notes # << >> /\ notes' # notes)
             => /\ requests # << >> /\ requests' = Tail(requests)
                /\ Head(requests).cmd = "save_note_content"]_vars

\* the app was started again after a note was saved and a todo added:
\* load_note has returned the saved content, the table still holds the todo
\* and the new snapshot is not loaded yet
C29_Witness ==
    /\ last.cmd = "load_note" /\ last.ok
    /\ replies # << >> /\ replies[Len(replies)].text = "edited"
    /\ notes = [id \in {1} |-> "edited"]
    /\ todos # << >>
    /\ ui_todos = << >>

\* ------------------------------------------------------- drop and cycles
Acyclic(T) == \A n \in DOMAIN T : n \notin ProperAncestors(T, n)

\* The table and sqlite_sequence after the backend has run the call m.
ApplyCall(st, m) ==
    CASE m.cmd = "add_todo_item" ->
            [T |-> db_save_todo(st.T, NextRowId(st.T, st.s), m.text),
             s |-> NextRowId(st.T, st.s)]
      [] m.cmd = "update_todo_status" ->
            [st EXCEPT !.T = db_update_todo(st.T, m.id, m.completed, FALSE).T]
      [] m.cmd = "remove_todo_item" -> [st EXCEPT !.T = db_delete_todo(st.T, m.id)]
      [] m.cmd = "move_todo_item" ->
            [st EXCEPT !.T = db_move_todo(st.T, m.id, m.target_parent_id,
                                          m.target_position, FALSE).T]
      [] m.cmd = "reset_all_todos" -> [st EXCEPT !.T = db_reset_all_todos(st.T)]
      [] m.cmd = "set_todo_count" ->
            [st EXCEPT !.T = db_set_todo_count(st.T, m.id, m.count)]
      [] m.cmd = "decrement_todo" ->
            [st EXCEPT !.T = db_decrement_todo(st.T, m.id, 0).T]
      [] OTHER -> st

\* The table after the backend has run the calls of q, oldest first.
RECURSIVE RunCalls(_, _)
RunCalls(st, q) ==
    IF q = << >> THEN st ELSE RunCalls(ApplyCall(st, Head(q)), Tail(q))

\* the drop target is the dragged item or, by the snapshot, below it
DropOnSelfOrDescendant ==
    /\ dragging_id # None /\ drop_target_id # None
    /\ \/ drop_target_id = dragging_id
       \/ /\ Find(ui_todos, drop_target_id[1]) # None
          /\ is_descendant(ui_todos, drop_target_id, dragging_id[1],
                           Len(ui_todos) + 1) = "yes"

\* the step has invoked move_todo_item
MoveSent ==
    /\ Len(requests') = Len(requests) + 1
    /\ requests'[Len(requests')].cmd = "move_todo_item"

\* C30: while the drop target is the dragged item or, by the snapshot, a
\* descendant of it, no move_todo_item is sent, and the mouseup that ends
\* such a drag leaves the store as it is and clears the drag state; and a
\* move sent while the snapshot equals an acyclic store leaves the store
\* acyclic once the backend has run it.
C30_DropKeepsAcyclic ==
    [][/\ DropOnSelfOrDescendant
             => /\ ~MoveSent
                /\ drop_target_id # dragging_id
                      => DropPlan(ui_todos, dragging_id[1], drop_target_id[1],
                                  drop_position).kind = "skip"
                /\ dragging_id' = None
                      => /\ drop_target_id' = None
                         /\ todos' = todos /\ requests' = requests
       /\ (MoveSent /\ ui_todos = db_get_todos(todos) /\ Acyclic(todos))
             => Acyclic(RunCalls([T |-> todos, s |-> seq], requests').T)]_vars

\* ------------------------------------------------- update_todo terminates
\* C31: on every reachable store state update_todo(id, v) ends for every
\* existing id and both values of v: the recursive CTE over the descendants
\* is finite and the loop over the ancestors reaches a row without parent.
C31_SetCompletedTerminates ==
    /\ ~hung
    /\ \A id \in DOMAIN todos, completed \in BOOLEAN :
          UpdateTodoBody(todos, id, completed).res # "loop"

\* ----------------------------------------------------------- SpecReload
\* The handlers that invoke a mutating command and then load_todos (the
\* checkbox, the drop, the count input, the countdown button, the reset
\* button), in any interleaving of up to MaxInflight tasks, on every forest
\* of up to MaxReloadNodes rows the mount Effect has loaded.
MaxReloadNodes == 2

InitReload ==
    /\ \E n \in 0..MaxReloadNodes :
         /\ seq = n
         /\ \E par \in Forests(n), done \in [NodeIds(n) -> BOOLEAN],
               armed \in [NodeIds(n) -> BOOLEAN] :
               todos = ForestTable(par, done, armed)
    /\ hung = FALSE
    /\ last = Executed("init_db", 0, FALSE, TRUE, "unit")
    /\ notes = db_init_notes(<< >>)
    /\ ui_todos = db_get_todos(todos)
    /\ dragging_id = None
    /\ drop_target_id = None
    /\ drop_position = 50
    /\ ui_hung = FALSE
    /\ requests = << >>
    /\ replies = << >>

\* The drops of SpecReload fall in the middle zone of the target (the
\* dragged row becomes its child), and the count input sends MaxCount.
ReloadDropPositions ==
    {relative_y \in DropPositions :
        relative_y >= BeforeZone /\ relative_y <= AfterZone}

NextReload ==
    \/ \E id \in NodeIds(MaxReloadNodes) : ui_toggle_todo(id)
    \/ \E id \in NodeIds(MaxReloadNodes) : ui_mousedown(id)
    \/ \E id \in NodeIds(MaxReloadNodes), relative_y \in ReloadDropPositions :
          ui_update_position(id, relative_y)
    \/ ui_mouseup
    \/ \E id \in NodeIds(MaxReloadNodes) :
          ui_set_todo_count(id, Some(MaxCount))
    \/ \E id \in NodeIds(MaxReloadNodes) : ui_decrement_todo(id)
    \/ ui_reset_all_todos
    \/ backend(MaxReloadNodes, MaxUiPos)
    \/ ui_reply

SpecReload == InitReload /\ [][NextReload]_vars

\* C32: however the tasks of these handlers interleave, once no call and no
\* reply is in flight (and no command is stuck in the backend) the todos
\* signal equals the table: the load_todos whose list was set last ran
\* after the last mutating command.
C32_InterleavedReloads ==
    (NothingInFlight /\ ~hung) => SnapshotMatchesStore(ui_todos, todos)

\* Two drops overlapped (each row became the other's parent, which takes two
\* moves planned on the same snapshot), both tasks have finished, and the
\* signal shows the table.
C32_Witness ==
    /\ NothingInFlight
    /\ ~hung
    /\ last.cmd = "load_todos"
    /\ \E n \in DOMAIN todos : n \in ProperAncestors(todos, n)
    /\ SnapshotMatchesStore(ui_todos, todos)

\* -------------------------------------------------------- SpecPositions
\* create, delete and move one after the other, from the empty table, with
\* target positions that are negative, in range, or as large as an i32 gets,
\* and any row of the table as target parent. Positions stay within one
\* above I32Max.
MaxPosId == 3
PosIds == 1..MaxPosId
PosParents == {None} \cup {Some(i) : i \in PosIds}
AnyPositions == {-1, 0, I32Max}

NextPositions ==
    \/ add_todo_item(DefaultText, FALSE, MaxPosId) /\ UiIdle
    \/ \E id \in PosIds : remove_todo_item(id, FALSE) /\ UiIdle
    \/ \E id \in PosIds, p \in PosParents, pos \in AnyPositions :
          /\ move_todo_item(id, p, pos, FALSE)
          /\ \A n \in DOMAIN todos' : todos'[n].position <= I32Max + 1
          /\ UiIdle

SpecPositions == Init /\ [][NextPositions]_vars

\* C33: in every state reached by creates, deletes and moves issued one at
\* a time, whatever the target position of a move, no two rows with the same
\* parent_id have the same position.
C33_SiblingPositionsDistinct ==
    \A a, b \in DOMAIN todos :
        (a # b /\ todos[a].parent_id = todos[b].parent_id)
            => todos[a].position # todos[b].position

\* ---------------------------------------------------- update_todo: frame
\* The rows update_todo(id, ..) may write: id, the rows below it and the
\* rows on the parent_id chain above it.
Touched(T, id) == {id} \cup Below(T, id) \cup ProperAncestors(T, id)

\* C34: set_completed(id, v) keeps the set of rows, leaves text, parent_id,
\* position, target_count and current_count of every row as they were, and
\* leaves every row that is neither id, nor below id, nor an ancestor of id
\* entirely as it was; a countdown row completed or un-completed by hand
\* keeps its counter.
C34_SetCompletedFrame ==
    [][(last'.cmd = "update_todo_status")
       => /\ DOMAIN todos' = DOMAIN todos
          /\ \A n \in DOMAIN todos :
                /\ todos'[n].text = todos[n].text
                /\ todos'[n].parent_id = todos[n].parent_id
                /\ todos'[n].position = todos[n].position
                /\ todos'[n].target_count = todos[n].target_count
                /\ todos'[n].current_count = todos[n].current_count
                /\ n \notin Touched(todos, last'.id) => todos'[n] = todos[n]]_vars

\* A child with an armed countdown was completed by hand: its counter is
\* still above 0, and its sibling, outside the cascade, is still incomplete
\* (so the parent is).
C34_Witness ==
    /\ last.cmd = "update_todo_status" /\ last.ok /\ last.completed
    /\ last.id \in DOMAIN todos
    /\ todos[last.id].completed
    /\ todos[last.id].target_count # None /\ todos[last.id].current_count > 0
    /\ todos[last.id].parent_id # None
    /\ \E s \in Children(todos, todos[last.id].parent_id[1]) \ {last.id} :
          ~todos[s].completed /\ s \notin Touched(todos, last.id)
    /\ ~todos[todos[last.id].parent_id[1]].completed

\* -------------------------------------------------------- SpecMoveFrame
\* move_todo_item with any row, any target parent and any target position
\* up to MaxFramePos, on every forest of up to MaxNodes rows with any
\* completed flags, each row with an armed countdown. Positions stay within
\* MaxFramePos.
MaxFramePos == 2

InitMoveFrame ==
    /\ \E n \in 0..MaxNodes :
         /\ seq = n
         /\ \E par \in Forests(n), done \in [NodeIds(n) -> BOOLEAN] :
               todos = ForestTable(par, done, [i \in NodeIds(n) |-> TRUE])
    /\ hung = FALSE
    /\ last = Executed("init_db", 0, FALSE, TRUE, "unit")
    /\ notes = db_init_notes(<< >>)
    /\ InitUi

NextMoveFrame ==
    \E id \in NodeIds(MaxNodes),
       p \in {None} \cup {Some(i) : i \in NodeIds(MaxNodes)},
       pos \in 0..MaxFramePos :
          /\ move_todo_item(id, p, pos, FALSE)
          /\ \A n \in DOMAIN todos' : todos'[n].position <= MaxFramePos
          /\ UiIdle

SpecMoveFrame == InitMoveFrame /\ [][NextMoveFrame]_vars

\* C35: move(id, target_parent_id, target_position) keeps the set of rows;
\* only the moved row changes parent_id (so the rows below it stay below
\* it); a position changes only on the moved row and on rows of its old and
\* its new group; and completed, text, target_count and current_count of
\* every row are as before, the old and the new ancestors included.
C35_MoveFrame ==
    [][(last'.cmd = "move_todo_item" /\ last'.ok)
       => LET id == last'.id
          IN  /\ DOMAIN todos' = DOMAIN todos
              /\ \A n \in DOMAIN todos :
                    /\ todos'[n].completed = todos[n].completed
                    /\ todos'[n].text = todos[n].text
                    /\ todos'[n].target_count = todos[n].target_count
                    /\ todos'[n].current_count = todos[n].current_count
                    /\ n # id => todos'[n].parent_id = todos[n].parent_id
                    /\ (n # id /\ todos'[n].position # todos[n].position)
                          => todos[n].parent_id \in {todos[id].parent_id,
                                                     todos'[id].parent_id}
              /\ Children(todos', id) \ {id} = Children(todos, id) \ {id}]_vars

\* An incomplete row with a child has been moved and lies under a completed
\* root row: the new parent's completion was not recomputed, and the child
\* came along.
C35_Witness ==
    /\ last.cmd = "move_todo_item" /\ last.ok
    /\ last.id \in DOMAIN todos
    /\ ~todos[last.id].completed
    /\ Children(todos, last.id) # {}
    /\ todos[last.id].parent_id # None
    /\ todos[last.id].parent_id # Some(last.id)
    /\ todos[todos[last.id].parent_id[1]].completed
    /\ todos[todos[last.id].parent_id[1]].parent_id = None

\* ----------------------------------------------- update_todo: idempotence
\* C36: on an acyclic table, update_todo(id, v) applied to the table that
\* update_todo(id, v) has just left returns Ok and leaves that same table.
C36_SetCompletedIdempotent ==
    [][(last'.cmd = "update_todo_status" /\ last'.ok /\ Acyclic(todos))
       => db_update_todo(todos', last'.id, last'.completed, FALSE)
             = [T |-> todos', res |-> "ok"]]_vars

\* A row between a parent and a child was un-completed: the row, the child
\* and the parent are incomplete.
C36_Witness ==
    /\ last.cmd = "update_todo_status" /\ last.ok /\ ~last.completed
    /\ last.id \in DOMAIN todos
    /\ Cardinality(ProperAncestors(todos, last.id)) = 1
    /\ Children(todos, last.id) # {}
    /\ \A n \in Touched(todos, last.id) : ~todos[n].completed

\* -------------------------------------------------------- SpecDecrement
\* decrement_todo on any row, with or without a countdown, together with
\* set_todo_count and update_todo_status, on every forest of up to MaxNodes
\* rows with any completed flags and armed countdowns.
NextDecrement ==
    \/ \E id \in NodeIds(MaxNodes) : decrement_todo(id, 0) /\ UiIdle
    \/ \E id \in NodeIds(MaxNodes), count \in SetCounts :
          set_todo_count(id, count, FALSE) /\ UiIdle
    \/ \E id \in NodeIds(MaxNodes), completed \in BOOLEAN :
          update_todo_status(id, completed, FALSE) /\ UiIdle

SpecDecrement == InitCascade /\ [][NextDecrement]_vars

\* C37: decrement(id) on a row whose current_count is 0, with or without a
\* countdown, leaves current_count at 0 and runs the cascade of
\* set_completed(id, true): the row and every row below it are completed,
\* every ancestor is completed exactly when all its children are, and
\* nothing else changes. decrement(id) on a row whose current_count is above
\* 1 lowers that count by 1 and changes nothing else.
C37_DecrementAtZeroAndAboveOne ==
    [][(last'.cmd = "decrement_todo" /\ last'.ok /\ last'.id \in DOMAIN todos)
       => LET id == last'.id
          IN  /\ todos[id].current_count = 0
                   => /\ DOMAIN todos' = DOMAIN todos
                      /\ todos'[id].current_count = 0
                      /\ \A n \in {id} \cup Below(todos, id) : todos'[n].completed
                      /\ \A a \in ProperAncestors(todos, id) :
                            todos'[a].completed = ChildrenRule(todos', a)
                      /\ \A n \in DOMAIN todos :
                            /\ [todos'[n] EXCEPT !.completed = todos[n].completed]
                                  = todos[n]
                            /\ n \notin Touched(todos, id) => todos'[n] = todos[n]
              /\ todos[id].current_count > 1
                   => todos' = [todos EXCEPT ![id].current_count = @ - 1]]_vars

\* decrement on an ordinary row (no countdown, count 0) between a parent and
\* a child: the three rows are completed.
C37_Witness ==
    /\ last.cmd = "decrement_todo" /\ last.ok
    /\ last.id \in DOMAIN todos
    /\ todos[last.id].target_count = None /\ todos[last.id].current_count = 0
    /\ Cardinality(ProperAncestors(todos, last.id)) = 1
    /\ Children(todos, last.id) # {}
    /\ \A n \in Touched(todos, last.id) : todos[n].completed

====
